---- MODULE Spec2Model ----
(***************************************************************************)
(* Model of the in-memory task scheduler (class MemoryTaskQueue) of the    *)
(* luogu-saver backend, together with the part of the persisted Task       *)
(* store it reads and writes.                                              *)
(*                                                                         *)
(* One step of the model is one run-to-completion turn of the JavaScript   *)
(* event loop: the code from one suspension point (await / timer) to the   *)
(* next.  An awaited store call is one step, which performs the store's    *)
(* effect (or fails) and hist the continuation up to the next await.       *)
(***************************************************************************)
EXTENDS Integers, Sequences, FiniteSets, TLC

\* ------------------------------------------------------------------ bounds
MaxJobs == 2            \* job objects created in one run (bootstrap + addTask)
MaxConcurrency == 2     \* the constructor argument ranges over 1..MaxConcurrency
MaxLoops == 2           \* dispatch-loop coroutines alive at the same time
MaxPreloaded == 1       \* pending Task records found in the store at bootstrap
MaxCrashes == 1         \* crashes and restarts of the process
MaxCalls == 2           \* calls of the save functions
MaxVersions == 2        \* versions of the page that the site serves
MaxGivenAttempts == 6     \* largest options.maxAttempts a caller of addTask gives
MaxChars == 3            \* characters of a text given to truncateUtf8
MaxLength == 6           \* largest maxLength given to truncateUtf8
MaxClock == 2           \* no save request is made after the clock has passed it
MaxFollowed == 2        \* redirects in a row that the site answers to one request
MaxCookies == 2         \* cookies of a Cookie header, and of a Set-Cookie list

\* ------------------------------------------------------- program constants
DefaultMaxAttempts == 3
\* the Task schema's default of maxAttempts
SchemaMaxAttempts == 3
\* process.env.CRAWLER_MAX_RETRIES || '3'
DefaultMaxRetries == 3

JobIds == 1..MaxJobs

\* job types the persisted Task model accepts (schema enum)
TaskTypeEnum == {"article_save", "article_update", "batch_process", "cleanup", "paste_save"}
\* job types processJob's switch has a handler for
HandledTypes == {"article_save", "paste_save", "batch_process", "cleanup"}
\* job types loadPendingTasks asks the store for
LoadedTypes == {"paste_save", "article_save"}

\* inputs of addTask: one handled type, one the schema accepts but the
\* dispatcher does not know, one the schema rejects (used by task.routes)
InputTypes == {"paste_save", "article_update", "save-article"}
\* the types the routes pass to addTask: save-article and batch-save-articles
\* of task.routes, and /save of paste.routes
RouteTypes == {"save-article", "batch-save-articles", "paste_save"}
\* payloads are objects: sequences of <<key, value>> in insertion order
Payload(n) == << <<"pasteId", n>> >>
Payloads == {Payload(1), Payload(2)}
\* options.maxAttempts as passed by a caller; 0 stands for absent / falsy
MaxAttemptsOptions == {0, -1}

Statuses == {"pending", "processing", "completed", "failed", "cancelled"}
EventNames == {"jobAdded", "jobStarted", "jobCompleted", "jobFailed", "jobRetry", "jobCancelled"}

VARIABLES
  concurrency,   \* this.concurrency
  isRunning,     \* this.isRunning
  loops,         \* number of processQueue coroutines sleeping in their 100 ms wait
  initialized,   \* initialize() has been called (the app calls it once)
  queue,         \* this.queue, a sequence of job ids (references to job objects)
  processing,    \* this.processing, the in-flight set of job ids
  timers,        \* jobs with a retry setTimeout not yet fired
  jobs,          \* the TaskJob objects, by id
  pc,            \* where the code working on each job is suspended
  hist,          \* every value each job's status field has had, in order
  db,            \* the persisted Task records, by job id
  emitted,       \* how many notifications of each kind were emitted per job
  ret,           \* what the public call that returned in the last step returned:
                 \* "id", "true", "false", "throw" (rejected), or "none"
  addOrder,      \* ids of the jobs enqueued by addTask, in completion order
  query,         \* the getTaskStatus / getQueueStats call suspended in its store read
  crashes,       \* how many times the process has crashed and been restarted
  inFlightAtCrash, \* the in-flight set as it was when the process last crashed
  crawl,         \* one crawlArticle / crawlPaste call: what the site answers, the result
  env,           \* process.env.CRAWLER_MAX_RETRIES
  saves,         \* the save calls for one article / paste id, by call
  articles,      \* the Article documents of the store that have that luoguId
  pastes,        \* the Paste documents of the store that have that luoguId
  now,           \* the clock that `new Date()` reads
  fetch,         \* one fetchContent call: mode, the site's answers, the requests made
  truncation,    \* one truncateUtf8 call: text, maxLength, the result
  merging,       \* one mergeSetCookieToHeaders call and its repetition
  taskDoc        \* the Task document that the taskId of the from-task calls names

\* what a crash leaves behind, besides the store
crashVars == <<crashes, inFlightAtCrash>>

\* the fetchContent, truncateUtf8 and mergeSetCookieToHeaders calls, and the
\* Task document of the from-task calls
callVars == <<fetch, truncation, merging, taskDoc>>

\* the state of CrawlerService calls
serviceVars == <<crawl, env, saves, articles, pastes, now, callVars>>

\* the state that the task queue's own methods never touch
outside == <<query, crashVars, serviceVars>>

vars == <<concurrency, isRunning, loops, initialized, queue, processing, timers,
          jobs, pc, hist, db, emitted, ret, addOrder, outside>>

\* job.error / the error field of a Task record is the set of the keys of the
\* object ({} when it is undefined); delay is the `delay` of the job's last
\* retry branch, in ms (0: none yet)
NoJob == [id |-> 0, type |-> "none", payload |-> <<>>, status |-> "none", progress |-> 0,
          attempts |-> 0, maxAttempts |-> 0, error |-> {}, delay |-> 0]
NoRecord == [status |-> "none", type |-> "none", payload |-> <<>>, hasJobId |-> FALSE,
             error |-> {}, attempts |-> 0, maxAttempts |-> 0]
NoRet == "none"
\* no getTaskStatus / getQueueStats call is waiting for the store
NoQuery == [op |-> "none"]
\* no crawlArticle / crawlPaste call has been made
NoCrawl == [kind |-> "none"]
\* a value of `lastError` or of a result's `message`: a string, an Error
\* object, or null
Null == [type |-> "null", text |-> ""]
String(text) == [type |-> "string", text |-> text]
Error(text) == [type |-> "Error", text |-> text]
\* CrawlResult.data, the record a crawl returns: version v of the page's
\* fields (0: no record)
ContentRecord(v) ==
  [title |-> v, content |-> v, authorUid |-> v, authorName |-> v, category |-> v,
   tags |-> v, publishedAt |-> v, createdAt |-> v]
NoData == ContentRecord(0)
\* the handler of a task-queue job has not been run for this call
NoHandler == [attempts |-> 0, status |-> "none"]
\* a save call that has not been made.  kind: the function called ("direct":
\* saveArticleDirectly, "paste": savePasteDirectly, "task": saveArticleFromTask);
\* data: articleData / pasteData; at: the value `new Date()` gave; task: the
\* status of the Task document of a from-task call; handler: the job whose
\* handler made the call.  log keeps the crawl outcomes of the call, wrote
\* counts the documents it has written, crawled its successful crawls.
NoSave ==
  [pc |-> "idle", attempt |-> 0, lastError |-> Null, log |-> <<>>, found |-> FALSE,
   result |-> [success |-> FALSE, message |-> Null],
   kind |-> "none", data |-> NoData, at |-> 0, wrote |-> 0, crawled |-> 0,
   task |-> "none", handler |-> NoHandler]
\* no fetchContent call has been made
NoFetch == [pc |-> "none"]
\* no truncateUtf8 call has been made
NoTruncation == [pc |-> "none"]
\* no mergeSetCookieToHeaders call has been made
NoMerging == [pc |-> "none"]
\* no CrawlerService call is under way
CallsIdle ==
  /\ fetch = NoFetch
  /\ truncation = NoTruncation
  /\ merging = NoMerging
  /\ taskDoc = "missing"

ServiceIdle ==
  /\ crawl = NoCrawl
  /\ env = "unset"
  /\ saves = [c \in 1..MaxCalls |-> NoSave]
  /\ articles = <<>>
  /\ pastes = <<>>
  /\ now = 1
  /\ CallsIdle

Range(s) == {s[i] : i \in 1..Len(s)}

\* JSON.stringify of a payload object: the keys and values in insertion order
RECURSIVE JSONStringify(_)
JSONStringify(p) ==
  IF p = <<>> THEN <<>> ELSE <<Head(p)[1], Head(p)[2]>> \o JSONStringify(Tail(p))

\* options.maxAttempts || 3
MaxAttemptsOf(opt) == IF opt = 0 THEN DefaultMaxAttempts ELSE opt

\* the first unused job id (ids are unique: Date.now() + random suffix, or _id)
Allocated == {j \in JobIds : pc[j] # "none" \/ db[j].status # "none"}
FreshId == CHOOSE j \in JobIds \ Allocated : \A k \in JobIds \ Allocated : j <= k

\* job.id of the job object j; a job object made by addTask, or loaded by
\* the first initialize(), is numbered by its id
IdOf(j) == jobs[j].id

Emit(em, j, e) == [em EXCEPT ![j][e] = @ + 1]

\* how many times processJob has started job j
Runs(j) == Cardinality({i \in 1..Len(hist[j]) : hist[j][i] = "processing"})

\* ------------------------------------------------------------ construction
\* The state after `new MemoryTaskQueue(concurrency)`: nothing queued, the
\* loop not started.  The store may already hold pending Task records left
\* by an earlier run of the process (created by addTask, with a jobId, or
\* by the save routes, without one); they have the schema defaults
\* attempts = 0, maxAttempts = 3.
PreloadedRecords ==
  {[status |-> "pending", type |-> t, payload |-> p, hasJobId |-> h, error |-> {},
    attempts |-> 0, maxAttempts |-> SchemaMaxAttempts] :
     t \in LoadedTypes \cap InputTypes, p \in {Payload(1)}, h \in BOOLEAN}

Init ==
  /\ concurrency \in 1..MaxConcurrency
  /\ isRunning = FALSE
  /\ loops = 0
  /\ initialized = FALSE
  /\ queue = <<>>
  /\ processing = {}
  /\ timers = {}
  /\ jobs = [j \in JobIds |-> NoJob]
  /\ pc = [j \in JobIds |-> "none"]
  /\ hist = [j \in JobIds |-> <<>>]
  /\ \E n \in 0..MaxPreloaded : \E recs \in [1..n -> PreloadedRecords] :
       db = [j \in JobIds |-> IF j <= n THEN recs[j] ELSE NoRecord]
  /\ emitted = [j \in JobIds |-> [e \in EventNames |-> 0]]
  /\ ret = NoRet
  /\ addOrder = <<>>
  /\ query = NoQuery
  /\ crashes = 0
  /\ inFlightAtCrash = {}
  /\ ServiceIdle

\* ------------------------------------------------------------- processJob
\* a lookup that compares the types only
ExistingJobTypeOnly(q, r, js) ==
  \E i \in 1..Len(q) : js[q[i]].type = r.type

\* this.queue.find(j => j.type === job.type &&
\*                      JSON.stringify(j.payload) === JSON.stringify(job.payload))
ExistingJob(q, r, js) ==
  \E i \in 1..Len(q) :
     /\ js[q[i]].type = r.type
     /\ JSONStringify(js[q[i]].payload) = JSONStringify(r.payload)

\* a delay computed from the attempts made before this one
RetryDelayBeforeIncrement(attempts) ==
  IF 5000 * 2^(attempts - 1) < 60000 THEN 5000 * 2^(attempts - 1) ELSE 60000

\* Math.min(5000 * Math.pow(2, job.attempts), 60000)
RetryDelay(attempts) ==
  IF 5000 * 2^attempts < 60000 THEN 5000 * 2^attempts ELSE 60000

\* the synchronous part of processJob's catch block: the job object after it
CaughtJob(r) ==
  LET a == r.attempts + 1 IN
  IF a >= r.maxAttempts
    THEN [r EXCEPT !.attempts = a, !.status = "failed", !.error = {"message", "stack"}]
    ELSE [r EXCEPT !.attempts = a, !.status = "pending", !.progress = 0,
                   !.delay = RetryDelay(a)]

\* a catch block without the search of the queue for an equal job
CaughtPcAlwaysRetry(r, q, js) ==
  IF CaughtJob(r).status = "failed" THEN "persistFailed" ELSE "persistRetry"

\* ... the await of updateTaskInDatabase the catch block then suspends at
CaughtPc(r, q, js) ==
  IF CaughtJob(r).status = "failed" THEN "persistFailed"
  ELSE IF ExistingJob(q, r, js) THEN "persistSkip"
  ELSE "persistRetry"

\* ... and the notification it emits before suspending
CaughtEmitted(em, j, r) ==
  IF CaughtJob(r).status = "failed" THEN Emit(em, j, "jobFailed") ELSE em

\* processJob from its first line to its first suspension, called by the
\* dispatch loop right after processing.add(job.id); q is the queue after
\* the shift.  A handled type suspends in its handler (which has set
\* progress to 30); an unknown type throws synchronously into the catch.
ProcessJobStart(j, q) ==
  LET started == [jobs[j] EXCEPT !.status = "processing", !.progress = 10]
      em == Emit(emitted, j, "jobStarted")
  IN /\ processing' = processing \cup {IdOf(j)}
     /\ IF started.type \in HandledTypes
          THEN /\ jobs' = [jobs EXCEPT ![j] = [started EXCEPT !.progress = 30]]
               /\ pc' = [pc EXCEPT ![j] = "handler"]
               /\ hist' = [hist EXCEPT ![j] = Append(@, "processing")]
               /\ emitted' = em
          ELSE /\ jobs' = [jobs EXCEPT ![j] = CaughtJob(started)]
               /\ pc' = [pc EXCEPT ![j] = CaughtPc(started, q, jobs)]
               /\ hist' = [hist EXCEPT ![j] = @ \o <<"processing", CaughtJob(started).status>>]
               /\ emitted' = CaughtEmitted(em, j, started)

\* ----------------------------------------------------------- processQueue
\* a dispatch loop that takes the next job whatever is in flight
ProcessQueueBodyUnbounded ==
  IF queue # <<>>
    THEN /\ queue' = Tail(queue)
         /\ IF jobs[Head(queue)].status = "pending"
              THEN ProcessJobStart(Head(queue), Tail(queue))
              ELSE UNCHANGED <<processing, jobs, pc, hist, emitted>>
    ELSE UNCHANGED <<queue, processing, jobs, pc, hist, emitted>>

\* a dispatch that takes the newest entry of the queue
ShiftLast(q) == [job |-> q[Len(q)], rest |-> SubSeq(q, 1, Len(q) - 1)]

\* the next job to dispatch: this.queue.shift() takes the oldest entry
Shift(q) == [job |-> Head(q), rest |-> Tail(q)]

\* one iteration of the while loop (up to its 100 ms sleep)
ProcessQueueBody ==
  IF Cardinality(processing) < concurrency /\ queue # <<>>
    THEN /\ queue' = Shift(queue).rest
         /\ IF jobs[Shift(queue).job].status = "pending"
              THEN ProcessJobStart(Shift(queue).job, Shift(queue).rest)
              ELSE UNCHANGED <<processing, jobs, pc, hist, emitted>>
    ELSE UNCHANGED <<queue, processing, jobs, pc, hist, emitted>>

\* ------------------------------------------------ initialize / start / stop
\* Task.find({status: 'pending', type: {$in: [...]}}).sort({createdAt: 1}):
\* the ids of the matching records, oldest first (ids grow with createdAt)
RECURSIVE PendingTasks(_)
PendingTasks(n) ==
  IF n = 0 THEN <<>>
  ELSE IF db[n].status = "pending" /\ db[n].type \in LoadedTypes
         THEN Append(PendingTasks(n - 1), n)
         ELSE PendingTasks(n - 1)

\* the job object loadPendingTasks builds from a Task record
LoadedJob(id, rec) ==
  [id |-> id, type |-> rec.type, payload |-> rec.payload, status |-> "pending", progress |-> 0,
   attempts |-> IF rec.attempts # 0 THEN rec.attempts ELSE 0,
   maxAttempts |-> IF rec.maxAttempts # 0 THEN rec.maxAttempts ELSE DefaultMaxAttempts,
   error |-> {}, delay |-> 0]

\* initialize(): start() (whose first loop iteration finds the queue empty),
\* then loadPendingTasks(), whose store query may fail (caught and logged)
Initialize(ok) ==
  /\ UNCHANGED outside
  /\ ~initialized
  /\ initialized' = TRUE
  /\ isRunning' = TRUE
  /\ loops' = loops + 1
  /\ LET found == IF ok THEN PendingTasks(MaxJobs) ELSE <<>> IN
       /\ queue' = queue \o found
       /\ jobs' = [j \in JobIds |-> IF j \in Range(found) THEN LoadedJob(j, db[j]) ELSE jobs[j]]
       /\ pc' = [j \in JobIds |-> IF j \in Range(found) THEN "idle" ELSE pc[j]]
       /\ hist' = [j \in JobIds |-> IF j \in Range(found) THEN <<"pending">> ELSE hist[j]]
  /\ UNCHANGED <<concurrency, processing, timers, db, emitted, addOrder>>
  /\ ret' = NoRet

\* the job objects a later loadPendingTasks() builds are new ones: the n-th
\* record found goes into the n-th job object not yet in use
FreeSlots == JobIds \ Allocated
SlotFor(n) == CHOOSE s \in FreeSlots : Cardinality({t \in FreeSlots : t < s}) = n - 1

\* initialize() called again on a running queue: start() returns at once,
\* loadPendingTasks() pushes a new job object for every pending record
Reinitialize(ok) ==
  /\ UNCHANGED outside
  /\ initialized
  /\ isRunning
  /\ LET found == IF ok THEN PendingTasks(MaxJobs) ELSE <<>>
         slots == {SlotFor(n) : n \in 1..Len(found)}
     IN /\ Len(found) <= Cardinality(FreeSlots)
        /\ queue' = queue \o [n \in 1..Len(found) |-> SlotFor(n)]
        /\ jobs' = [j \in JobIds |->
                      IF j \in slots
                        THEN LET n == CHOOSE n \in 1..Len(found) : SlotFor(n) = j
                             IN LoadedJob(found[n], db[found[n]])
                        ELSE jobs[j]]
        /\ pc' = [j \in JobIds |-> IF j \in slots THEN "idle" ELSE pc[j]]
        /\ hist' = [j \in JobIds |-> IF j \in slots THEN <<"pending">> ELSE hist[j]]
  /\ UNCHANGED <<concurrency, isRunning, loops, initialized, processing, timers, db,
                 emitted, addOrder>>
  /\ ret' = NoRet

\* start() while stopped: a new loop coroutine, whose first iteration runs at once
Start ==
  /\ UNCHANGED outside
  /\ initialized
  /\ ~isRunning
  /\ loops < MaxLoops
  /\ isRunning' = TRUE
  /\ loops' = loops + 1
  /\ ProcessQueueBody
  /\ UNCHANGED <<concurrency, initialized, timers, db, addOrder>>
  /\ ret' = NoRet

\* stop()
Stop ==
  /\ UNCHANGED outside
  /\ initialized
  /\ isRunning
  /\ isRunning' = FALSE
  /\ UNCHANGED <<concurrency, loops, initialized, queue, processing, timers, jobs, pc,
                 hist, db, emitted, addOrder>>
  /\ ret' = NoRet

\* a loop coroutine wakes from its sleep and finds isRunning true
ProcessQueue ==
  /\ UNCHANGED outside
  /\ loops > 0
  /\ isRunning
  /\ ProcessQueueBody
  /\ UNCHANGED <<concurrency, isRunning, loops, initialized, timers, db, addOrder>>
  /\ ret' = NoRet

\* a loop coroutine wakes from its sleep and finds isRunning false: it ends
ProcessQueueExit ==
  /\ UNCHANGED outside
  /\ loops > 0
  /\ ~isRunning
  /\ loops' = loops - 1
  /\ UNCHANGED <<concurrency, isRunning, initialized, queue, processing, timers, jobs,
                 pc, hist, db, emitted, addOrder>>
  /\ ret' = NoRet

\* ------------------------------------------------ processJob, after the await
\* the handler resolves: completed, notified, removed from the in-flight
\* set by finally, which then awaits updateTaskInDatabase
HandlerReturn(j) ==
  /\ UNCHANGED outside
  /\ pc[j] = "handler"
  /\ jobs' = [jobs EXCEPT ![j].status = "completed", ![j].progress = 100]
  /\ emitted' = Emit(emitted, j, "jobCompleted")
  /\ processing' = processing \ {IdOf(j)}
  /\ pc' = [pc EXCEPT ![j] = "finalPersist"]
  /\ hist' = [hist EXCEPT ![j] = Append(@, "completed")]
  /\ UNCHANGED <<concurrency, isRunning, loops, initialized, queue, timers, db, addOrder>>
  /\ ret' = NoRet

\* the handler rejects: the catch block up to its await
HandlerThrow(j) ==
  /\ UNCHANGED outside
  /\ pc[j] = "handler"
  /\ jobs' = [jobs EXCEPT ![j] = CaughtJob(jobs[j])]
  /\ pc' = [pc EXCEPT ![j] = CaughtPc(jobs[j], queue, jobs)]
  /\ emitted' = CaughtEmitted(emitted, j, jobs[j])
  /\ hist' = [hist EXCEPT ![j] = Append(@, CaughtJob(jobs[j]).status)]
  /\ UNCHANGED <<concurrency, isRunning, loops, initialized, queue, processing, timers,
                 db, addOrder>>
  /\ ret' = NoRet

\* the record Task.findOneAndUpdate of updateTaskInDatabase matches: by jobId
\* for ids made by addTask ('task_...'), by _id otherwise
UpdateQueryMatches(j) == db[IdOf(j)].status # "none"

\* the store after updateTaskInDatabase(job): status and error written when
\* the call succeeds and a record matches; errors are caught and logged
UpdatedDb(j, ok) ==
  IF ok /\ UpdateQueryMatches(j)
    THEN [db EXCEPT ![IdOf(j)].status = jobs[j].status, ![IdOf(j)].error = jobs[j].error]
    ELSE db

\* a finally block that leaves the in-flight set alone
FinallyKeeps(j) == processing

\* finally: processing.delete(job.id)
Finally(j) == processing \ {IdOf(j)}

\* an awaited updateTaskInDatabase settles and processJob runs on:
\*  after the terminal failure: finally, which awaits a second update;
\*  after the retry update: setTimeout, jobRetry, finally;
\*  after the skipped-retry update: finally;
\*  after finally's update: processJob ends
UpdateTaskInDatabase(j, ok) ==
  /\ UNCHANGED outside
  /\ pc[j] \in {"persistFailed", "persistRetry", "persistSkip", "finalPersist"}
  /\ db' = UpdatedDb(j, ok)
  /\ processing' = IF pc[j] = "finalPersist" THEN processing ELSE Finally(j)
  /\ timers' = IF pc[j] = "persistRetry" THEN timers \cup {j} ELSE timers
  /\ emitted' = IF pc[j] = "persistRetry" THEN Emit(emitted, j, "jobRetry") ELSE emitted
  /\ pc' = [pc EXCEPT ![j] = IF pc[j] = "persistFailed" THEN "finalPersist" ELSE "idle"]
  /\ UNCHANGED <<concurrency, isRunning, loops, initialized, queue, jobs, hist,
                 addOrder>>
  /\ ret' = NoRet

\* a retry that joins the queue at its end
Requeue(q, j) == Append(q, j)

\* the retry timer fires: this.queue.unshift(job)
Unshift(q, j) == <<j>> \o q

RetryTimer(j) ==
  /\ UNCHANGED outside
  /\ j \in timers
  /\ timers' = timers \ {j}
  /\ queue' = Unshift(queue, j)
  /\ UNCHANGED <<concurrency, isRunning, loops, initialized, processing, jobs, pc, hist,
                 db, emitted, addOrder>>
  /\ ret' = NoRet

\* ----------------------------------------------------------------- addTask
\* Payload values are interchangeable, so a caller's payload is one that a
\* job or record already carries, or the first one not yet used.
UsedPayloads == {jobs[j].payload : j \in JobIds} \cup {db[j].payload : j \in JobIds}
FreshPayloads ==
  {Payload(n) : n \in {m \in 1..Cardinality(Payloads) :
                         \A k \in 1..(m - 1) : Payload(k) \in UsedPayloads}}

\* the job object addTask builds
NewJob(type, payload, opt) ==
  [id |-> FreshId, type |-> type, payload |-> payload, status |-> "pending", progress |-> 0,
   attempts |-> 0, maxAttempts |-> MaxAttemptsOf(opt), error |-> {}, delay |-> 0]

\* addTask up to `await task.save()`: the job object and the Task document
\* exist, nothing is stored or queued yet
AddTask(type, payload, opt) ==
  /\ UNCHANGED outside
  /\ initialized
  /\ payload \in FreshPayloads
  /\ JobIds \ Allocated # {}
  /\ jobs' = [jobs EXCEPT ![FreshId] = NewJob(type, payload, opt)]
  /\ pc' = [pc EXCEPT ![FreshId] = "saving"]
  /\ hist' = [hist EXCEPT ![FreshId] = <<"pending">>]
  /\ UNCHANGED <<concurrency, isRunning, loops, initialized, queue, processing, timers,
                 db, emitted, addOrder>>
  /\ ret' = NoRet

\* task.save() validates the document against the schema (the type enum)
SaveAccepted(j, ok) == ok /\ jobs[j].type \in TaskTypeEnum

\* the record task.save() writes: new Task({jobId, type, payload, status,
\* priority, createdBy}) with the schema defaults for attempts and maxAttempts
SavedRecord(j) ==
  [status |-> "pending", type |-> jobs[j].type, payload |-> jobs[j].payload,
   hasJobId |-> TRUE, error |-> {}, attempts |-> 0, maxAttempts |-> SchemaMaxAttempts]

\* task.save() settles: the record is stored, or the call rejects and
\* addTask rejects with it (its job object is dropped)
TaskSave(j, ok) ==
  /\ UNCHANGED outside
  /\ pc[j] = "saving"
  /\ IF SaveAccepted(j, ok)
       THEN /\ db' = [db EXCEPT ![j] = SavedRecord(j)]
            /\ pc' = [pc EXCEPT ![j] = "saved"]
            /\ ret' = NoRet
            /\ UNCHANGED <<jobs, hist>>
       ELSE /\ pc' = [pc EXCEPT ![j] = "none"]
            /\ jobs' = [jobs EXCEPT ![j] = NoJob]
            /\ hist' = [hist EXCEPT ![j] = <<>>]
            /\ ret' = "throw"
            /\ UNCHANGED db
  /\ UNCHANGED <<concurrency, isRunning, loops, initialized, queue, processing, timers,
                 emitted, addOrder>>

\* an enqueue at the front of the queue
PushFront(q, j) == <<j>> \o q

\* this.queue.push(job)
Push(q, j) == Append(q, j)

\* addTask after the await: enqueue, notify, return the id
AddTaskResume(j) ==
  /\ UNCHANGED outside
  /\ pc[j] = "saved"
  /\ queue' = Push(queue, j)
  /\ emitted' = Emit(emitted, j, "jobAdded")
  /\ ret' = "id"
  /\ addOrder' = Append(addOrder, j)
  /\ pc' = [pc EXCEPT ![j] = "idle"]
  /\ UNCHANGED <<concurrency, isRunning, loops, initialized, processing, timers, jobs,
                 hist, db>>

\* -------------------------------------------------------------- cancelTask
\* this.queue.findIndex(job => job.id === jobId && job.status === 'pending')
FindIndex(q, id) ==
  IF \E i \in 1..Len(q) : jobs[q[i]].id = id /\ jobs[q[i]].status = "pending"
    THEN CHOOSE i \in 1..Len(q) :
           /\ jobs[q[i]].id = id /\ jobs[q[i]].status = "pending"
           /\ \A k \in 1..(i - 1) : ~(jobs[q[k]].id = id /\ jobs[q[k]].status = "pending")
    ELSE -1

\* a cancel that leaves the job in the queue
NotSpliced(q, i) == q

\* this.queue.splice(i, 1)
Splice(q, i) == SubSeq(q, 1, i - 1) \o SubSeq(q, i + 1, Len(q))

\* a cancelTask that, like the Task model's cancel(), also cancels a job
\* that is being processed
CancelTaskInFlight(id) ==
  /\ UNCHANGED outside
  /\ initialized
  /\ jobs[id].status # "none"
  /\ IF FindIndex(queue, id) # -1
       THEN /\ queue' = Splice(queue, FindIndex(queue, id))
            /\ jobs' = [jobs EXCEPT ![id].status = "cancelled"]
            /\ pc' = [pc EXCEPT ![id] = "cancelPersist"]
            /\ hist' = [hist EXCEPT ![id] = Append(@, "cancelled")]
            /\ ret' = NoRet
       ELSE IF jobs[id].status = "processing"
         THEN /\ jobs' = [jobs EXCEPT ![id].status = "cancelled"]
              /\ hist' = [hist EXCEPT ![id] = Append(@, "cancelled")]
              /\ ret' = "true"
              /\ UNCHANGED <<queue, pc>>
         ELSE /\ ret' = "false"
              /\ UNCHANGED <<queue, jobs, pc, hist>>
  /\ UNCHANGED <<concurrency, isRunning, loops, initialized, processing, timers,
                 db, emitted, addOrder>>

\* cancelTask up to its await (job found), or to its return (not found)
CancelTask(id) ==
  /\ UNCHANGED outside
  /\ initialized
  /\ jobs[id].status # "none"
  /\ IF FindIndex(queue, id) # -1
       THEN LET j == queue[FindIndex(queue, id)] IN
            /\ queue' = Splice(queue, FindIndex(queue, id))
            /\ jobs' = [jobs EXCEPT ![j].status = "cancelled"]
            /\ pc' = [pc EXCEPT ![j] = "cancelPersist"]
            /\ hist' = [hist EXCEPT ![j] = Append(@, "cancelled")]
            /\ ret' = NoRet
       ELSE /\ ret' = "false"
            /\ UNCHANGED <<queue, jobs, pc, hist>>
  /\ UNCHANGED <<concurrency, isRunning, loops, initialized, processing, timers, db, emitted, addOrder>>

\* Task.findOneAndUpdate({jobId: jobId}, ...) matches a record with that jobId
CancelQueryMatches(j) == db[IdOf(j)].status # "none" /\ db[IdOf(j)].hasJobId

\* cancelTask's awaited store update settles: on success notify and return
\* true; a store error is not caught, cancelTask rejects
CancelPersist(j, ok) ==
  /\ UNCHANGED outside
  /\ pc[j] = "cancelPersist"
  /\ pc' = [pc EXCEPT ![j] = "idle"]
  /\ IF ok
       THEN /\ db' = IF CancelQueryMatches(j)
                         THEN [db EXCEPT ![IdOf(j)].status = "cancelled"] ELSE db
            /\ emitted' = Emit(emitted, j, "jobCancelled")
            /\ ret' = "true"
       ELSE /\ ret' = "throw"
            /\ UNCHANGED <<db, emitted>>
  /\ UNCHANGED <<concurrency, isRunning, loops, initialized, queue, processing, timers,
                 jobs, hist, addOrder>>

\* ------------------------------------------------------------------ queries
\* the variables of the task queue, which the queries only read
queueState == <<concurrency, isRunning, loops, initialized, queue, processing, timers,
                jobs, pc, hist, db, emitted, addOrder>>

\* getTaskStatus' lookup: this.queue.find(j => j.id === jobId) || the in-flight
\* ids mapped through this.queue.find, searched for jobId; 0 when undefined
FindJob(jobId) ==
  IF jobId \in Range(queue) THEN jobId
  ELSE IF \E id \in processing : id \in Range(queue) /\ id = jobId THEN jobId
  ELSE 0

\* getTaskStatus(jobId) up to its return or its await of Task.findOne; the
\* answer is the job object's fields, op "memory"
GetTaskStatus(jobId) ==
  /\ initialized
  /\ query.op \notin {"findOne", "count"}
  /\ query' = IF FindJob(jobId) # 0
                THEN [op |-> "memory", id |-> jobId,
                      status |-> jobs[FindJob(jobId)].status,
                      progress |-> jobs[FindJob(jobId)].progress]
                ELSE [op |-> "findOne", id |-> jobId]
  /\ ret' = NoRet
  /\ UNCHANGED <<queueState, crashVars, serviceVars>>

\* Task.findOne({ jobId }) settles: the projection of the record ("store"),
\* null, or the rejection of the call
FindOneReturn(ok) ==
  /\ query.op = "findOne"
  /\ query' = IF ~ok THEN [op |-> "throw", id |-> query.id]
              ELSE IF db[query.id].status # "none" /\ db[query.id].hasJobId
                THEN [op |-> "store", id |-> query.id, status |-> db[query.id].status]
              ELSE [op |-> "null", id |-> query.id]
  /\ ret' = NoRet
  /\ UNCHANGED <<queueState, crashVars, serviceVars>>

\* this.queue.filter(job => job.status === 'pending').length
Waiting == Cardinality({i \in 1..Len(queue) : jobs[queue[i]].status = "pending"})

\* Array.from(this.processing).map(id => this.queue.find(...)).filter(Boolean).length
Active == Cardinality({id \in processing : id \in Range(queue)})

\* getQueueStats() up to its await of the two Task.countDocuments
GetQueueStats ==
  /\ initialized
  /\ query.op \notin {"findOne", "count"}
  /\ query' = [op |-> "count", waiting |-> Waiting, active |-> Active]
  /\ ret' = NoRet
  /\ UNCHANGED <<queueState, crashVars, serviceVars>>

\* the two countDocuments settle and getQueueStats returns (or rejects)
CountDocumentsReturn(ok) ==
  /\ query.op = "count"
  /\ query' = IF ~ok THEN [op |-> "throw", id |-> 0]
              ELSE [op |-> "stats", waiting |-> query.waiting, active |-> query.active,
                    completed |-> Cardinality({j \in JobIds : db[j].status = "completed"}),
                    failed |-> Cardinality({j \in JobIds : db[j].status = "failed"})]
  /\ ret' = NoRet
  /\ UNCHANGED <<queueState, crashVars, serviceVars>>

\* -------------------------------------------------------------------- crash
\* The process dies and is started again: the MemoryTaskQueue object, its
\* timers, its listeners and every suspended call are gone, the store keeps
\* its records, and the bootstrap will call initialize() on a new object.
Crash ==
  /\ crashes < MaxCrashes
  /\ initialized
  /\ crashes' = crashes + 1
  /\ inFlightAtCrash' = processing
  /\ isRunning' = FALSE
  /\ loops' = 0
  /\ initialized' = FALSE
  /\ queue' = <<>>
  /\ processing' = {}
  /\ timers' = {}
  /\ jobs' = [j \in JobIds |-> NoJob]
  /\ pc' = [j \in JobIds |-> "none"]
  /\ hist' = [j \in JobIds |-> <<>>]
  /\ emitted' = [j \in JobIds |-> [e \in EventNames |-> 0]]
  /\ addOrder' = <<>>
  /\ query' = NoQuery
  /\ ret' = NoRet
  /\ UNCHANGED <<concurrency, db, serviceVars>>

\* ------------------------------------------------------------------- crawl
\* What the site can answer to one GET (axios is configured with
\* validateStatus: () => true and maxRedirects: 0, so every status comes
\* back as a response).  status 0 stands for a transport failure (axios
\* throws).  location is the Location header ("" when absent).  The page
\* fields describe the body of a 200 answer: json = the body is a parsed
\* JSON object served as application/json; for an HTML body, what the
\* cheerio selectors of the crawler find in it.
HttpStatuses == {0, 200, 301, 302, 304, 401, 403, 404, 451, 500}
Locations == {"", "/auth/login", "/other"}
\* #lentille-context: absent, holding the record, holding JSON without the
\* record, holding text that JSON.parse rejects
Contexts == {"none", "record", "empty", "invalid"}

BlankPage ==
  [json |-> FALSE, loginForm |-> FALSE, continueControl |-> FALSE, keywords |-> FALSE,
   captcha |-> FALSE, context |-> "none", content |-> FALSE]

HtmlPages ==
  [json : {FALSE}, loginForm : BOOLEAN, continueControl : BOOLEAN, keywords : BOOLEAN,
   captcha : BOOLEAN, context : Contexts, content : BOOLEAN]

\* a JSON body: context = "record" when it holds the article, "empty" otherwise
JsonPages == {[BlankPage EXCEPT !.json = TRUE, !.context = c] : c \in {"record", "empty"}}

Responses ==
  {[status |-> st, location |-> l, page |-> BlankPage] :
      st \in HttpStatuses \ {200}, l \in Locations}
  \cup {[status |-> 200, location |-> "", page |-> pg] : pg \in HtmlPages \cup JsonPages}

\* location.includes('auth/login') || location.includes('login')
IncludesLogin(location) == location = "/auth/login"

Failure(message, statusCode) ==
  [success |-> FALSE, message |-> message, statusCode |-> statusCode]
\* statusCode 0: the result has no statusCode field
Success == [success |-> TRUE, message |-> "", statusCode |-> 0]
\* the status checks have not decided: the answer is a 200
Undecided == [success |-> FALSE, message |-> "undecided", statusCode |-> 0]

\* response.status === 302 && response.headers.location
IsCookieRedirect(r) == r.status = 302 /\ r.location # ""

\* The response the status checks see.  A 302 with a Location makes the
\* crawler merge the Set-Cookie pairs and ask again; the site answers every
\* reissued request of one crawl alike (second).
FinalResponse(first, second) == IF IsCookieRedirect(first) THEN second ELSE first

\* crawlArticle, the redirect and status checks
ArticleStatusOutcome(r) ==
  IF r.status >= 300 /\ r.status < 400 /\ r.location # ""
    THEN IF IncludesLogin(r.location)
           THEN Failure("article login required", r.status)
           ELSE Failure("redirect", r.status)
  ELSE IF r.status # 200
    THEN IF r.status = 404 THEN Failure("article not found", 404)
         ELSE IF r.status = 403 \/ r.status = 451 THEN Failure("article access denied", r.status)
         ELSE IF r.status = 401 THEN Failure("auth expired", 401)
         ELSE Failure("http error", r.status)
  ELSE Undecided

\* parseArticleFromHTML: `$('.article-content').first() || $('article').first()`
\* is always its left operand
ParseArticleFromHTML(pg) ==
  IF pg.content THEN Success ELSE Failure("no article content", 200)

\* crawlArticle, a 200 answer
ArticlePageOutcome(pg) ==
  IF pg.json
    THEN IF pg.context = "record" THEN Success ELSE Failure("json without article", 200)
  ELSE IF pg.loginForm THEN Failure("login page", 401)
  ELSE IF pg.continueControl THEN Failure("challenge: interaction", 200)
  ELSE IF pg.keywords THEN Failure("challenge: verification", 200)
  ELSE IF pg.captcha THEN Failure("challenge: captcha", 200)
  ELSE IF pg.context = "none" THEN ParseArticleFromHTML(pg)
  ELSE IF pg.context = "record" THEN Success
  ELSE IF pg.context = "empty" THEN Failure("context without article", 200)
  ELSE ParseArticleFromHTML(pg)

\* crawlArticle(articleId, cookie); a transport failure is caught and
\* returned without statusCode
CrawlArticle(first, second) ==
  LET r == FinalResponse(first, second) IN
    IF first.status = 0 \/ r.status = 0 THEN Failure("transport", 0)
    ELSE IF ArticleStatusOutcome(r) # Undecided THEN ArticleStatusOutcome(r)
    ELSE ArticlePageOutcome(r.page)

\* status checks that let a 451 through to the generic branch
PasteStatusOutcomeNo451(r) ==
  IF r.status >= 300 /\ r.status < 400 /\ r.location # ""
    THEN IF IncludesLogin(r.location)
           THEN Failure("paste login required", r.status)
           ELSE Failure("redirect", r.status)
  ELSE IF r.status # 200
    THEN IF r.status = 404 THEN Failure("paste not found", 404)
         ELSE IF r.status = 403 THEN Failure("paste access denied", r.status)
         ELSE IF r.status = 401 THEN Failure("auth expired", 401)
         ELSE Failure("http error", r.status)
  ELSE Undecided

\* crawlPaste, the redirect and status checks
PasteStatusOutcome(r) ==
  IF r.status >= 300 /\ r.status < 400 /\ r.location # ""
    THEN IF IncludesLogin(r.location)
           THEN Failure("paste login required", r.status)
           ELSE Failure("redirect", r.status)
  ELSE IF r.status # 200
    THEN IF r.status = 404 THEN Failure("paste not found", 404)
         ELSE IF r.status = 403 \/ r.status = 451 THEN Failure("paste access denied", r.status)
         ELSE IF r.status = 401 THEN Failure("auth expired", 401)
         ELSE Failure("http error", r.status)
  ELSE Undecided

\* parsePasteFromHTML
ParsePasteFromHTML(pg) ==
  IF pg.content THEN Success ELSE Failure("no paste content", 200)

\* crawlPaste, a 200 answer with an HTML body: the login check, then
\* commonFetchHandler and the #lentille-context fallback, then the HTML parse
PastePageOutcome(pg) ==
  IF pg.loginForm THEN Failure("login page", 401)
  ELSE IF pg.context = "record" THEN Success
  ELSE ParsePasteFromHTML(pg)

\* crawlPaste(pasteId, cookie)
CrawlPaste(first, second) ==
  LET r == FinalResponse(first, second) IN
    IF first.status = 0 \/ r.status = 0 THEN Failure("transport", 0)
    ELSE IF PasteStatusOutcome(r) # Undecided THEN PasteStatusOutcome(r)
    ELSE PastePageOutcome(r.page)

\* the crawls a caller can make: a kind and the site's answers
CrawlInputs ==
  {[kind |-> k, first |-> f, second |-> f, done |-> FALSE, result |-> Undecided] :
      k \in {"article", "paste"}, f \in {r \in Responses : ~IsCookieRedirect(r)}}
  \cup {[kind |-> k, first |-> f, second |-> g, done |-> FALSE, result |-> Undecided] :
      k \in {"article", "paste"}, f \in {r \in Responses : IsCookieRedirect(r)},
      g \in Responses}

\* crawlArticle returns
CrawlArticleReturn ==
  /\ crawl.kind = "article" /\ ~crawl.done
  /\ crawl' = [crawl EXCEPT !.done = TRUE, !.result = CrawlArticle(crawl.first, crawl.second)]
  /\ UNCHANGED <<queueState, ret, query, crashVars, env, saves, articles, pastes, now, callVars>>

\* crawlPaste returns (its callers send Accept: text/html; HTML bodies)
CrawlPasteReturn ==
  /\ crawl.kind = "paste" /\ ~crawl.done
  /\ ~crawl.first.page.json /\ ~crawl.second.page.json
  /\ crawl' = [crawl EXCEPT !.done = TRUE, !.result = CrawlPaste(crawl.first, crawl.second)]
  /\ UNCHANGED <<queueState, ret, query, crashVars, env, saves, articles, pastes, now, callVars>>

\* ------------------------------------------------------ saveArticleDirectly
Calls == 1..MaxCalls

\* values of CRAWLER_MAX_RETRIES in the environment
Envs == {"unset", "0", "1", "3", "abc"}

\* parseInt(process.env.CRAWLER_MAX_RETRIES || '3'); nan for NaN
ParseInt(e) ==
  CASE e = "unset" -> [nan |-> FALSE, n |-> DefaultMaxRetries]
    [] e = "0" -> [nan |-> FALSE, n |-> 0]
    [] e = "1" -> [nan |-> FALSE, n |-> 1]
    [] e = "3" -> [nan |-> FALSE, n |-> 3]
    [] OTHER -> [nan |-> TRUE, n |-> 0]

\* attempt <= maxRetries (false for NaN)
LoopContinues(attempt, maxRetries) == ~maxRetries.nan /\ attempt <= maxRetries.n

\* what the site answers while an article is being saved: 451, 403, or the
\* page with the article
SaveAnswers ==
  {[status |-> 451, location |-> "", page |-> BlankPage],
   [status |-> 403, location |-> "", page |-> BlankPage],
   [status |-> 200, location |-> "", page |-> [BlankPage EXCEPT !.context = "record"]]}

\* messages of the errors a failing store call can throw; the second is
\* one that contains the text '451'
StoreErrors == {"store error", "store error 451"}
\* error.message?.includes('451') || ...includes('Unavailable For Legal Reasons')
Includes451(text) == text \in {"store error 451", "E11000 duplicate key 451"}
\* the message of the error that rejects a second document with the same
\* luoguId; it names the id, which may contain '451' (given as text)
DuplicateKey(text) ==
  IF Includes451(text) THEN "E11000 duplicate key 451" ELSE "E11000 duplicate key"

\* `await CrawlerService.delay(attempt * 5000)`, in seconds
BackoffSecondsFlat(attempt) == 5

BackoffSeconds(attempt) == attempt * 5

\* the end of the function: return { success: false, message: lastError || '保存失败' }
Exhausted(call) ==
  [call EXCEPT !.pc = "done",
               !.result = [success |-> FALSE,
                           message |-> IF call.lastError = Null THEN String("save failed")
                                       ELSE call.lastError]]

\* the for statement: its test with the given attempt number, then either
\* the body up to its first await or the code after the loop
LoopTest(call, attempt) ==
  IF LoopContinues(attempt, ParseInt(env))
    THEN [call EXCEPT !.pc = "delay", !.attempt = attempt]
    ELSE Exhausted([call EXCEPT !.attempt = attempt])

\* saveArticleDirectly(articleId, cookie) is called
SaveArticleDirectly(c) ==
  /\ saves[c].pc = "idle"
  /\ saves' = [saves EXCEPT ![c] = LoopTest([saves[c] EXCEPT !.kind = "direct"], 1)]
  /\ UNCHANGED <<queueState, ret, query, crashVars, crawl, env, articles, pastes, now, callVars>>

\* the random delay at the top of the loop body is over: crawlArticle is called
DelayDone(c) ==
  /\ saves[c].pc = "delay"
  /\ saves' = [saves EXCEPT ![c].pc = "crawl"]
  /\ UNCHANGED <<queueState, ret, query, crashVars, crawl, env, articles, pastes, now, callVars>>

\* crawlArticle returns and the call goes on to the upsert without the test
\* of crawlResult.success
CrawlDoneUnchecked(c, answer, record) ==
  /\ saves[c].pc = "crawl"
  /\ LET crawlResult == CrawlArticle(answer, answer)
         logged == Append(saves[c].log,
                     [statusCode |-> crawlResult.statusCode, success |-> crawlResult.success,
                      message |-> crawlResult.message, wait |-> 0, saves |-> 0]) IN
       saves' = [saves EXCEPT ![c] =
                   [@ EXCEPT !.pc = "findOne", !.log = logged, !.data = record]]
  /\ UNCHANGED <<queueState, ret, query, crashVars, crawl, env, articles, pastes, now, callVars>>

\* crawlArticle returns crawlResult (with the record the page holds as its
\* data); log gets the outcome of this attempt
CrawlDone(c, answer, record) ==
  /\ saves[c].pc = "crawl"
  /\ LET crawlResult == CrawlArticle(answer, answer)
         logged == Append(saves[c].log,
                     [statusCode |-> crawlResult.statusCode, success |-> crawlResult.success,
                      message |-> crawlResult.message, wait |-> 0, saves |-> 0]) IN
       saves' = [saves EXCEPT ![c] =
         IF ~crawlResult.success
           THEN IF crawlResult.statusCode = 451
                  THEN [@ EXCEPT !.pc = "backoff", !.log = logged]
                  ELSE [@ EXCEPT !.pc = "done", !.log = logged,
                          !.result = [success |-> FALSE,
                                      message |-> String(crawlResult.message)]]
           ELSE [@ EXCEPT !.pc = "findOne", !.log = logged, !.data = record,
                          !.crawled = @ + 1]]
  /\ UNCHANGED <<queueState, ret, query, crashVars, crawl, env, articles, pastes, now, callVars>>

\* the delay after a 451 outcome is over: lastError = new Error(message); continue
BackoffDone(c) ==
  /\ saves[c].pc = "backoff"
  /\ LET call == saves[c]
         k == Len(call.log)
         waited == [call EXCEPT !.log[k].wait = BackoffSeconds(call.attempt),
                                !.lastError = Error(call.log[k].message)] IN
       saves' = [saves EXCEPT ![c] = LoopTest(waited, call.attempt + 1)]
  /\ UNCHANGED <<queueState, ret, query, crashVars, crawl, env, articles, pastes, now, callVars>>

\* the catch block: lastError = error.message; a message with '451' waits
\* and continues, any other breaks out of the loop
Catch(call, text) ==
  IF Includes451(text)
    THEN [call EXCEPT !.pc = "catchBackoff", !.lastError = String(text)]
    ELSE Exhausted([call EXCEPT !.lastError = String(text)])

\* `new Date()` is read: the clock has moved on when it is read again
Tick(ok) == now' = IF ok THEN now + 1 ELSE now

\* Article.findOne({ luoguId }) settles; with a document or with null the
\* code sets the fields (crawledAt: new Date()) and calls save() on the old
\* or on a new document
FindOneDone(c, ok, text) ==
  /\ saves[c].pc = "findOne"
  /\ saves' = [saves EXCEPT ![c] =
       IF ok THEN [@ EXCEPT !.pc = "save", !.found = articles # <<>>, !.at = now,
                            !.log[Len(@.log)].saves = @ + 1]
       ELSE Catch(@, text)]
  /\ Tick(ok)
  /\ UNCHANGED <<queueState, ret, query, crashVars, crawl, env, articles, pastes, callVars>>

\* the store rejects the insert of a second document with the same luoguId
\* (unique index of the schema)
InsertAllowedNoIndex(store) == TRUE

InsertAllowed(store) == store = <<>>

\* new Article({...}) as save() stores it: the fields of the record,
\* crawledAt: new Date(), status: 'completed'; updatedAt is set by save()
\* (schema option timestamps and the pre('save') hook) to the time of the
\* save.  from is the record the document was last written from, again
\* whether the write before that one was from the same record.
NewArticle(data, time) ==
  [title |-> data.title, content |-> data.content,
   authorUid |-> data.authorUid, authorName |-> data.authorName,
   category |-> data.category, tags |-> data.tags, publishedAt |-> data.publishedAt,
   updatedAt |-> time, crawledAt |-> time, status |-> "completed",
   from |-> data, again |-> FALSE]

\* an update that also assigns publishedAt: new Date()
UpdatedArticleRepublished(entity, data, time) ==
  [NewArticle(data, time) EXCEPT !.publishedAt = time, !.again = (data = entity.from)]

\* existingArticle after the assignments of the update branch, as save()
\* stores it (publishedAt is not assigned)
UpdatedArticle(entity, data, time) ==
  [entity EXCEPT !.title = data.title, !.content = data.content,
                 !.authorUid = data.authorUid, !.authorName = data.authorName,
                 !.category = data.category, !.tags = data.tags,
                 !.updatedAt = time, !.crawledAt = time, !.status = "completed",
                 !.from = data, !.again = (data = entity.from)]

\* existingArticle.save() / newArticle.save() settles
SaveDone(c, ok, text) ==
  /\ saves[c].pc = "save"
  /\ IF ~ok
       THEN /\ saves' = [saves EXCEPT ![c] = Catch(@, text)]
            /\ UNCHANGED articles
     ELSE IF saves[c].found
       THEN /\ saves' = [saves EXCEPT ![c].pc = "metadata", ![c].wrote = @ + 1]
            /\ articles' = [articles EXCEPT
                             ![1] = UpdatedArticle(@, saves[c].data, saves[c].at)]
     ELSE IF InsertAllowed(articles)
       THEN /\ saves' = [saves EXCEPT ![c].pc = "metadata", ![c].wrote = @ + 1]
            /\ articles' = Append(articles, NewArticle(saves[c].data, saves[c].at))
     ELSE /\ saves' = [saves EXCEPT ![c] = Catch(@, DuplicateKey(text))]
          /\ UNCHANGED articles
  /\ UNCHANGED <<queueState, ret, query, crashVars, crawl, env, pastes, now, callVars>>

\* updateMetadata() (a second save of the same document, with the metadata
\* computed from its content) settles; success returns { success: true, ... }
MetadataDone(c, ok, text) ==
  /\ saves[c].pc = "metadata"
  /\ saves' = [saves EXCEPT ![c] =
       IF ok THEN [@ EXCEPT !.pc = "done",
                            !.result = [success |-> TRUE, message |-> String("saved")]]
       ELSE Catch(@, text)]
  /\ UNCHANGED <<queueState, ret, query, crashVars, crawl, env, articles, pastes, now, callVars>>

\* the delay in the catch block is over: continue
CatchBackoffDone(c) ==
  /\ saves[c].pc = "catchBackoff"
  /\ LET call == saves[c]
         k == Len(call.log)
         waited == [call EXCEPT !.log[k].wait = BackoffSeconds(call.attempt)] IN
       saves' = [saves EXCEPT ![c] = LoopTest(waited, call.attempt + 1)]
  /\ UNCHANGED <<queueState, ret, query, crashVars, crawl, env, articles, pastes, now, callVars>>

\* -------------------------------------------------------- savePasteDirectly
\* one crawl outcome in the log of a call
Logged(call, crawlResult) ==
  Append(call.log, [statusCode |-> crawlResult.statusCode, success |-> crawlResult.success,
                    message |-> crawlResult.message, wait |-> 0, saves |-> 0])

\* return { success: false, message }
Failed(call, text) ==
  [call EXCEPT !.pc = "done", !.result = [success |-> FALSE, message |-> String(text)]]

\* return { success: true, ... }
Succeeded(call) ==
  [call EXCEPT !.pc = "done", !.result = [success |-> TRUE, message |-> String("saved")]]

\* what the site answers while a paste is being saved (HTML bodies)
PasteAnswers ==
  {[status |-> 403, location |-> "", page |-> BlankPage],
   [status |-> 200, location |-> "", page |-> [BlankPage EXCEPT !.loginForm = TRUE]],
   [status |-> 200, location |-> "", page |-> [BlankPage EXCEPT !.context = "record"]]}

\* savePasteDirectly(pasteId, cookie) is called: crawlPaste
SavePasteDirectly(c) ==
  /\ saves[c].pc = "idle"
  /\ saves' = [saves EXCEPT ![c].pc = "pasteCrawl", ![c].kind = "paste"]
  /\ UNCHANGED <<queueState, ret, query, crashVars, crawl, env, articles, pastes, now, callVars>>

\* crawlPaste returns result
PasteCrawlDone(c, answer, record) ==
  /\ saves[c].pc = "pasteCrawl"
  /\ LET result == CrawlPaste(answer, answer)
         logged == Logged(saves[c], result) IN
       saves' = [saves EXCEPT ![c] =
         IF ~result.success
           THEN Failed([@ EXCEPT !.log = logged], result.message)
           ELSE [@ EXCEPT !.pc = "pasteFindOne", !.log = logged, !.data = record,
                          !.crawled = @ + 1]]
  /\ UNCHANGED <<queueState, ret, query, crashVars, crawl, env, articles, pastes, now, callVars>>

\* Paste.findOne({ luoguId }) settles; the fields are set (updatedAt and
\* crawledAt: new Date()) and save() is called
PasteFindOneDone(c, ok, text) ==
  /\ saves[c].pc = "pasteFindOne"
  /\ saves' = [saves EXCEPT ![c] =
       IF ok THEN [@ EXCEPT !.pc = "pasteSave", !.found = pastes # <<>>, !.at = now,
                            !.log[Len(@.log)].saves = @ + 1]
       ELSE Failed(@, text)]
  /\ Tick(ok)
  /\ UNCHANGED <<queueState, ret, query, crashVars, crawl, env, articles, pastes, callVars>>

\* new Paste({...}) as save() stores it
NewPaste(data, time) ==
  [title |-> data.title, content |-> data.content,
   authorUid |-> data.authorUid, authorName |-> data.authorName,
   publishedAt |-> data.publishedAt, createdAt |-> data.createdAt,
   updatedAt |-> time, crawledAt |-> time, status |-> "completed",
   from |-> data, again |-> FALSE]

\* existingPaste after the assignments of the update branch
UpdatedPaste(entity, data, time) ==
  [NewPaste(data, time) EXCEPT !.again = (data = entity.from)]

\* existingPaste.save() / newPaste.save() settles (a store that rejects the
\* insert makes save() throw)
PasteSaveDone(c, ok, text) ==
  /\ saves[c].pc = "pasteSave"
  /\ IF ~ok
       THEN /\ saves' = [saves EXCEPT ![c] = Failed(@, text)]
            /\ UNCHANGED pastes
     ELSE /\ saves' = [saves EXCEPT ![c] = Succeeded([@ EXCEPT !.wrote = @ + 1])]
          /\ pastes' = IF saves[c].found /\ pastes # <<>>
                         THEN [pastes EXCEPT ![1] = UpdatedPaste(@, saves[c].data, saves[c].at)]
                         ELSE Append(pastes, NewPaste(saves[c].data, saves[c].at))
  /\ UNCHANGED <<queueState, ret, query, crashVars, crawl, env, articles, now, callVars>>

\* ------------------------------------------------------ saveArticleFromTask
\* the Task documents a caller can name: none, or a document with a status
\* and a payload with or without articleId
TaskInputs == {"missing", "pending", "pending without articleId", "completed"}

\* the statuses at which saveArticleFromTask goes on to startProcessing
PassesStatusCheck(task) == task \in {"pending", "pending without articleId"}

\* saveArticleFromTask(taskId) is called with the id of the document `task`:
\* Task.findById
SaveArticleFromTask(c, task) ==
  /\ saves[c].pc = "idle"
  /\ saves' = [saves EXCEPT ![c].pc = "taskFindById", ![c].kind = "task"]
  /\ taskDoc' = task
  /\ UNCHANGED <<queueState, ret, query, crashVars, crawl, env, articles, pastes, now,
                 fetch, truncation, merging>>

\* the catch block: Task.findById again
TaskCatch(call, text) == [call EXCEPT !.pc = "catchFindById", !.lastError = String(text)]

\* Task.findById settles: no task and a task that is not pending return a
\* failure, a pending one gets startProcessing()
TaskFindByIdDone(c, ok, text) ==
  /\ saves[c].pc = "taskFindById"
  /\ saves' = [saves EXCEPT ![c] =
       IF ~ok THEN TaskCatch(@, text)
       ELSE IF taskDoc = "missing" THEN Failed([@ EXCEPT !.task = taskDoc], "task missing")
       ELSE IF ~PassesStatusCheck(taskDoc)
         THEN Failed([@ EXCEPT !.task = taskDoc], "task status invalid")
       ELSE [@ EXCEPT !.pc = "startProcessing", !.task = taskDoc]]
  /\ UNCHANGED <<queueState, ret, query, crashVars, crawl, env, articles, pastes, now, callVars>>

\* task.startProcessing() settles: without articleId task.fail(), else crawlArticle
StartProcessingDone(c, ok, text) ==
  /\ saves[c].pc = "startProcessing"
  /\ saves' = [saves EXCEPT ![c] =
       IF ~ok THEN TaskCatch(@, text)
       ELSE IF @.task = "pending without articleId"
         THEN [@ EXCEPT !.pc = "taskFail", !.task = "processing",
                        !.lastError = String("articleId missing")]
       ELSE [@ EXCEPT !.pc = "taskCrawl", !.task = "processing"]]
  /\ taskDoc' = IF ok THEN "processing" ELSE taskDoc
  /\ UNCHANGED <<queueState, ret, query, crashVars, crawl, env, articles, pastes, now,
                 fetch, truncation, merging>>

\* crawlArticle returns: a failure gets task.fail(message), a success Article.findOne
TaskCrawlDone(c, answer, record) ==
  /\ saves[c].pc = "taskCrawl"
  /\ LET crawlResult == CrawlArticle(answer, answer)
         logged == Logged(saves[c], crawlResult) IN
       saves' = [saves EXCEPT ![c] =
         IF ~crawlResult.success
           THEN [@ EXCEPT !.pc = "taskFail", !.log = logged,
                          !.lastError = String(crawlResult.message)]
           ELSE [@ EXCEPT !.pc = "taskFindOne", !.log = logged, !.data = record,
                          !.crawled = @ + 1]]
  /\ UNCHANGED <<queueState, ret, query, crashVars, crawl, env, articles, pastes, now, callVars>>

\* task.fail(message) settles: return { success: false, message }
TaskFailDone(c, ok, text) ==
  /\ saves[c].pc = "taskFail"
  /\ saves' = [saves EXCEPT ![c] =
       IF ok THEN Failed([@ EXCEPT !.task = "failed"], @.lastError.text)
       ELSE TaskCatch(@, text)]
  /\ taskDoc' = IF ok THEN "failed" ELSE taskDoc
  /\ UNCHANGED <<queueState, ret, query, crashVars, crawl, env, articles, pastes, now,
                 fetch, truncation, merging>>

\* Article.findOne({ luoguId }) settles
TaskFindOneDone(c, ok, text) ==
  /\ saves[c].pc = "taskFindOne"
  /\ saves' = [saves EXCEPT ![c] =
       IF ok THEN [@ EXCEPT !.pc = "taskSave", !.found = articles # <<>>, !.at = now,
                            !.log[Len(@.log)].saves = @ + 1]
       ELSE TaskCatch(@, text)]
  /\ Tick(ok)
  /\ UNCHANGED <<queueState, ret, query, crashVars, crawl, env, articles, pastes, callVars>>

\* existingArticle.save() / newArticle.save() settles
TaskSaveDone(c, ok, text) ==
  /\ saves[c].pc = "taskSave"
  /\ IF ~ok
       THEN /\ saves' = [saves EXCEPT ![c] = TaskCatch(@, text)]
            /\ UNCHANGED articles
     ELSE IF saves[c].found
       THEN /\ saves' = [saves EXCEPT ![c].pc = "taskMetadata", ![c].wrote = @ + 1]
            /\ articles' = [articles EXCEPT
                             ![1] = UpdatedArticle(@, saves[c].data, saves[c].at)]
     ELSE IF InsertAllowed(articles)
       THEN /\ saves' = [saves EXCEPT ![c].pc = "taskMetadata", ![c].wrote = @ + 1]
            /\ articles' = Append(articles, NewArticle(saves[c].data, saves[c].at))
     ELSE /\ saves' = [saves EXCEPT ![c] = TaskCatch(@, DuplicateKey(text))]
          /\ UNCHANGED articles
  /\ UNCHANGED <<queueState, ret, query, crashVars, crawl, env, pastes, now, callVars>>

\* updateMetadata() settles: task.complete(...)
TaskMetadataDone(c, ok, text) ==
  /\ saves[c].pc = "taskMetadata"
  /\ saves' = [saves EXCEPT ![c] =
       IF ok THEN [@ EXCEPT !.pc = "taskComplete"] ELSE TaskCatch(@, text)]
  /\ UNCHANGED <<queueState, ret, query, crashVars, crawl, env, articles, pastes, now, callVars>>

\* task.complete(...) settles: return { success: true, ... }
TaskCompleteDone(c, ok, text) ==
  /\ saves[c].pc = "taskComplete"
  /\ saves' = [saves EXCEPT ![c] =
       IF ok THEN Succeeded([@ EXCEPT !.task = "completed"]) ELSE TaskCatch(@, text)]
  /\ taskDoc' = IF ok THEN "completed" ELSE taskDoc
  /\ UNCHANGED <<queueState, ret, query, crashVars, crawl, env, articles, pastes, now,
                 fetch, truncation, merging>>

\* the promise of the call is rejected
Rejected(call, text) ==
  [call EXCEPT !.pc = "rejected", !.result = [success |-> FALSE, message |-> Error(text)]]

\* Task.findById of the catch block settles: task.fail(error.message) if
\* there is a task
CatchFindByIdDone(c, ok, text) ==
  /\ saves[c].pc = "catchFindById"
  /\ saves' = [saves EXCEPT ![c] =
       IF ~ok THEN Rejected(@, text)
       ELSE IF taskDoc = "missing" THEN Failed(@, @.lastError.text)
       ELSE [@ EXCEPT !.pc = "catchFail"]]
  /\ UNCHANGED <<queueState, ret, query, crashVars, crawl, env, articles, pastes, now, callVars>>

\* task.fail of the catch block settles: return { success: false, message }
CatchFailDone(c, ok, text) ==
  /\ saves[c].pc = "catchFail"
  /\ saves' = [saves EXCEPT ![c] =
       IF ok THEN Failed([@ EXCEPT !.task = "failed"], @.lastError.text)
       ELSE Rejected(@, text)]
  /\ taskDoc' = IF ok THEN "failed" ELSE taskDoc
  /\ UNCHANGED <<queueState, ret, query, crashVars, crawl, env, articles, pastes, now,
                 fetch, truncation, merging>>

\* ------------------------------------------- processSaveArticle / processSavePaste
\* processJob runs the handler of a save job: processSaveArticle calls
\* saveArticleDirectly, processSavePaste calls savePasteDirectly
ProcessSave(c, type) ==
  /\ saves[c].pc = "idle"
  /\ LET call == [saves[c] EXCEPT !.handler = [attempts |-> 0, status |-> "processing"]] IN
       saves' = [saves EXCEPT ![c] =
         IF type = "article_save" THEN LoopTest([call EXCEPT !.kind = "direct"], 1)
         ELSE [call EXCEPT !.pc = "pasteCrawl", !.kind = "paste"]]
  /\ UNCHANGED <<queueState, ret, query, crashVars, crawl, env, articles, pastes, now, callVars>>

\* the save function has returned to the handler: a success completes the
\* job, a failure is thrown, and processJob counts the attempt and either
\* fails the job or sets the retry timer
HandlerSettled(c) ==
  /\ saves[c].pc = "done"
  /\ saves[c].handler.status = "processing"
  /\ LET attempts == saves[c].handler.attempts + 1 IN
       saves' = [saves EXCEPT ![c] =
         IF @.result.success
           THEN [@ EXCEPT !.pc = "settled", !.handler.status = "completed"]
         ELSE IF attempts >= DefaultMaxAttempts
           THEN [@ EXCEPT !.pc = "settled",
                          !.handler = [attempts |-> attempts, status |-> "failed"]]
         ELSE [@ EXCEPT !.pc = "timer",
                        !.handler = [attempts |-> attempts, status |-> "pending"]]]
  /\ UNCHANGED <<queueState, ret, query, crashVars, crawl, env, articles, pastes, now, callVars>>

\* the retry timer has fired and the job is dispatched again: the handler
\* calls the save function anew
HandlerRetry(c) ==
  /\ saves[c].pc = "timer"
  /\ now <= MaxClock
  /\ LET call == [saves[c] EXCEPT !.handler.status = "processing", !.lastError = Null,
                                  !.log = <<>>, !.found = FALSE, !.attempt = 0,
                                  !.result = NoSave.result] IN
       saves' = [saves EXCEPT ![c] =
         IF call.kind = "direct" THEN LoopTest(call, 1)
         ELSE [call EXCEPT !.pc = "pasteCrawl"]]
  /\ UNCHANGED <<queueState, ret, query, crashVars, crawl, env, articles, pastes, now, callVars>>

\* ------------------------------------------------------------- truncateUtf8
\* A string is the sequence of its UTF-16 code units.  The characters of the
\* texts: 'A', U+4E80 (one unit each), U+1F600 and U+1F680 (a high and a low
\* surrogate each).
Characters == {<<65>>, <<20096>>, <<55357, 56832>>, <<55357, 56960>>}

\* the strings of at most n characters
RECURSIVE TextsOf(_)
TextsOf(n) ==
  IF n = 0 THEN {<<>>}
  ELSE LET shorter == TextsOf(n - 1) IN
         shorter \cup {s \o ch : s \in shorter, ch \in Characters}

\* text.substring(0, n)
Substring(text, n) == SubSeq(text, 1, IF n < Len(text) THEN n ELSE Len(text))

\* (charCode & 0xC0) === 0x80
IsContinuation(charCode) == (charCode \div 64) % 4 = 2

\* the while loop: drop the last unit as long as it passes the test
RECURSIVE DropContinuation(_)
DropContinuation(truncated) ==
  IF Len(truncated) > 0 /\ IsContinuation(truncated[Len(truncated)])
    THEN DropContinuation(Substring(truncated, Len(truncated) - 1))
    ELSE truncated

\* truncateUtf8(text, maxLength)
TruncateUtf8(text, maxLength) ==
  IF text = <<>> \/ Len(text) <= maxLength THEN text
  ELSE DropContinuation(Substring(text, maxLength))

\* truncateUtf8 returns
TruncateUtf8Return ==
  /\ truncation.pc = "called"
  /\ truncation' = [truncation EXCEPT
                      !.pc = "returned",
                      !.result = TruncateUtf8(truncation.text, truncation.maxLength)]
  /\ UNCHANGED <<queueState, ret, query, crashVars, crawl, env, saves, articles, pastes,
                 now, fetch, merging, taskDoc>>

\* ------------------------------------------------------------ fetchContent
\* A response of the site, as fetchContent reads it: resp.status, whether
\* resp.headers.location is set, the cookie pairs of resp.headers['set-cookie']
\* (<<>>: no such header), whether resp.data is a string that matches
\* /C3VK=([a-zA-Z0-9]+);/.  code is err.code when axios.get rejected instead
\* ("": it resolved).
Response(status, location, setCookie, token) ==
  [status |-> status, location |-> location, setCookie |-> setCookie, token |-> token,
   code |-> ""]
Rejection(code) ==
  [status |-> 0, location |-> FALSE, setCookie |-> <<>>, token |-> FALSE, code |-> code]
NoResponse == Rejection("")

SetCookies == {<<>>, << <<"C3VK", "new">> >>, << <<"C3VK", "1", "x">> >>}
FetchResponses ==
  {Response(200, FALSE, s, t) : s \in SetCookies, t \in BOOLEAN}
    \cup {Response(st, l, s, FALSE) : st \in {301, 302}, l \in BOOLEAN, s \in SetCookies}
    \cup {Response(403, FALSE, s, FALSE) : s \in SetCookies}
\* a connection failure and a failure of another kind
Rejections == {Rejection("ECONNRESET"), Rejection("ERR_BAD_RESPONSE")}
FetchAnswers == FetchResponses \cup Rejections

\* the Cookie header the caller passes: a sequence of <<name, value>>
CallerCookies == {<<>>, << <<"uid", "1">>, <<"C3VK", "old">> >>, << <<"uid", "1", "x">> >>}

\* the error codes the catch blocks turn into a NetworkError
NetworkCodes == {"ECONNABORTED", "ETIMEDOUT", "ECONNREFUSED", "ENOTFOUND", "ECONNRESET"}
Classified(code) == IF code \in NetworkCodes THEN "NetworkError" ELSE "error"

\* A cookie string ("name=value" of the Cookie header, or the part of a
\* Set-Cookie line before its first ';') is the sequence of its pieces
\* between '=' signs: "a=b=c" is <<"a", "b", "c">>, "a=" is <<"a", "">>.
\* A header is the sequence of its cookie strings (<<>>: no header).

\* existingCookies[k] = v: a name the object has keeps its place
PutCookie(existing, pair) ==
  IF \E i \in 1..Len(existing) : existing[i][1] = pair[1]
    THEN [i \in 1..Len(existing) |->
            IF existing[i][1] = pair[1] THEN pair ELSE existing[i]]
    ELSE Append(existing, pair)

\* const [k, v] = s.split('='); if (k && v): the first two pieces count,
\* and only when both are there and not empty
Splits(cookie) == Len(cookie) >= 2 /\ cookie[1] # "" /\ cookie[2] # ""

\* the cookies of a list go into the object one after the other
RECURSIVE MergePairs(_, _)
MergePairs(existing, pairs) ==
  IF pairs = <<>> THEN existing
  ELSE MergePairs(IF Splits(Head(pairs))
                    THEN PutCookie(existing, <<Head(pairs)[1], Head(pairs)[2]>>)
                    ELSE existing,
                  Tail(pairs))

\* mergeSetCookieToHeaders: the new value of headers.Cookie
MergeSetCookieToHeaders(response, cookie) ==
  IF response.setCookie = <<>> THEN cookie
  ELSE MergePairs(MergePairs(<<>>, cookie), response.setCookie)

\* one cookie string: a plain value, an empty value, a value with '=' in it
CookieNames == {"C3VK", "uid"}
CookieStrings ==
  {<<n, v>> : n \in CookieNames, v \in {"1", "2", ""}}
    \cup {<<n, "1", "x">> : n \in CookieNames}

RECURSIVE ListsOf(_, _)
ListsOf(S, n) ==
  IF n = 0 THEN {<<>>}
  ELSE ListsOf(S, n - 1) \cup {Append(l, x) : l \in {k \in ListsOf(S, n - 1) : Len(k) = n - 1}, x \in S}

\* the merge of a response's Set-Cookie into the headers returns
MergeReturn ==
  /\ merging.pc = "called"
  /\ merging' = [merging EXCEPT
                   !.pc = "merged",
                   !.once = MergeSetCookieToHeaders(merging.response, merging.cookie)]
  /\ UNCHANGED <<queueState, ret, query, crashVars, crawl, env, saves, articles, pastes,
                 now, fetch, truncation, taskDoc>>

\* the same response is merged into the same headers once more
MergeAgainReturn ==
  /\ merging.pc = "merged"
  /\ merging' = [merging EXCEPT
                   !.pc = "merged again",
                   !.twice = MergeSetCookieToHeaders(merging.response, merging.once)]
  /\ UNCHANGED <<queueState, ret, query, crashVars, crawl, env, saves, articles, pastes,
                 now, fetch, truncation, taskDoc>>

\* a reissue for every redirect that carries Set-Cookie
NegotiatesAnyRedirect(resp) ==
  resp.status >= 300 /\ resp.status < 400 /\ resp.setCookie # <<>>

\* resp.status === 302 && resp.headers.location
Negotiates(resp) == resp.status = 302 /\ resp.location

\* handleLegacyC3VK finds the token in the body
LegacyMatches(resp) == resp.token

\* the call is over: what the caller gets
FetchOver(f, outcome) == [f EXCEPT !.pc = "done", !.outcome = outcome]

\* a GET goes out with the Cookie header `cookie`
Get(f, pos, cookie) == [f EXCEPT !.pc = pos, !.gets = @ + 1, !.sent = cookie]

\* fetchContent called: h is built and the first GET is under way
FetchCalled(mode, cookie) ==
  [pc |-> "first", mode |-> mode, given |-> cookie, h |-> cookie, sent |-> cookie,
   gets |-> 1, followed |-> 0, reissued |-> FALSE,
   first |-> NoResponse, second |-> NoResponse, resp |-> NoResponse, outcome |-> "none"]

fetchUnchanged ==
  <<queueState, ret, query, crashVars, crawl, env, saves, articles, pastes, now, truncation, merging,
    taskDoc>>

\* the first GET settles; fetchContent runs up to its next await or its end
FirstAnswer(answer) ==
  /\ fetch.pc = "first"
  /\ LET got == [fetch EXCEPT !.first = answer, !.resp = answer] IN
       fetch' =
         IF answer.code # "" THEN FetchOver([fetch EXCEPT !.first = answer], Classified(answer.code))
         ELSE IF fetch.mode = "legacy"
           THEN IF LegacyMatches(answer)
                  THEN Get(got, "legacy", << <<"C3VK", "token">> >>)
                  ELSE FetchOver(got, "returned")
         ELSE IF fetch.mode = "new" /\ Negotiates(answer)
           THEN Get([got EXCEPT !.reissued = TRUE,
                                !.h = MergeSetCookieToHeaders(answer, fetch.h)],
                    "reissue", MergeSetCookieToHeaders(answer, fetch.h))
         ELSE FetchOver(got, "returned")
  /\ UNCHANGED fetchUnchanged

\* the reissued GET of mode "new" settles (no redirect is followed, every
\* status resolves)
ReissueAnswer(answer) ==
  /\ fetch.pc = "reissue"
  /\ fetch' =
       IF answer.code # ""
         THEN FetchOver([fetch EXCEPT !.second = answer], Classified(answer.code))
         ELSE FetchOver([fetch EXCEPT !.second = answer, !.resp = answer], "returned")
  /\ UNCHANGED fetchUnchanged

\* the GET of handleLegacyC3VK, made without frontendFetchConfig, gets an
\* answer: the client follows a redirect with a GET of its own, resolves on
\* a 2xx status and rejects on any other; nothing catches the rejection
LegacyAnswer(answer) ==
  /\ fetch.pc = "legacy"
  /\ (answer.status >= 300 /\ answer.status < 400 /\ answer.location) =>
        fetch.followed < MaxFollowed
  /\ LET seen == IF fetch.second = NoResponse
                   THEN [fetch EXCEPT !.second = answer] ELSE fetch IN
       fetch' =
         IF answer.code # "" THEN FetchOver(seen, "error")
         ELSE IF answer.status >= 300 /\ answer.status < 400 /\ answer.location
           THEN [Get(seen, "legacy", fetch.sent) EXCEPT !.followed = @ + 1]
         ELSE IF answer.status >= 200 /\ answer.status < 300
           THEN FetchOver([seen EXCEPT !.resp = answer], "returned")
         ELSE FetchOver(seen, "error")
  /\ UNCHANGED fetchUnchanged

\* ------------------------------------------------------------ specification
\* the steps of the scheduler and of the store
Step ==
  \/ \E ok \in BOOLEAN : Initialize(ok)
  \/ ProcessQueue
  \/ \E j \in JobIds, ok \in BOOLEAN : TaskSave(j, ok)
  \/ \E j \in JobIds : AddTaskResume(j)
  \/ \E j \in JobIds : HandlerReturn(j)
  \/ \E j \in JobIds : HandlerThrow(j)
  \/ \E j \in JobIds, ok \in BOOLEAN : UpdateTaskInDatabase(j, ok)
  \/ \E j \in JobIds : RetryTimer(j)
  \/ \E j \in JobIds : CancelTask(j)
  \/ \E j \in JobIds, ok \in BOOLEAN : CancelPersist(j, ok)

\* The program as its routes drive it: addTask is never given maxAttempts.
Next ==
  \/ Step
  \/ \E t \in InputTypes, p \in Payloads : AddTask(t, p, 0)

Spec == Init /\ [][Next]_vars

\* The program with each of the routes that add a task in use
NextRoutes ==
  \/ Step
  \/ \E t \in RouteTypes, p \in Payloads : AddTask(t, p, 0)

SpecRoutes == Init /\ [][NextRoutes]_vars

\* addTask as a public method: any options.maxAttempts
NextAnyOptions ==
  \/ Step
  \/ \E t \in InputTypes, p \in Payloads, o \in MaxAttemptsOptions : AddTask(t, p, o)

SpecAnyOptions == Init /\ [][NextAnyOptions]_vars

\* paste_save jobs added with maxAttempts up to MaxGivenAttempts
NextRetry ==
  \/ Step
  \/ \E p \in Payloads, o \in {0, MaxGivenAttempts} : AddTask("paste_save", p, o)

SpecRetry == Init /\ [][NextRetry]_vars

\* the same as Spec with initialize() called again at any time
NextReinitialize ==
  \/ Next
  \/ \E ok \in BOOLEAN : Reinitialize(ok)

SpecReinitialize == Init /\ [][NextReinitialize]_vars

\* the same as Spec with stop() and start() called at any time
NextLifecycle == Next \/ Start \/ Stop \/ ProcessQueueExit

SpecLifecycle == Init /\ [][NextLifecycle]_vars

\* Handlers and store calls settle (every request has a timeout), and the
\* event loop runs every continuation that is ready.
Fairness ==
  \A j \in JobIds :
     /\ WF_vars(HandlerReturn(j) \/ HandlerThrow(j))
     /\ WF_vars(\E ok \in BOOLEAN : UpdateTaskInDatabase(j, ok))

FairSpec == Spec /\ Fairness

\* ... and the dispatch loop keeps waking from its sleep, and every retry
\* timer that was set fires
DispatchFairness ==
  /\ Fairness
  /\ WF_vars(ProcessQueue)
  /\ \A j \in JobIds : WF_vars(RetryTimer(j))

FairDispatchSpec == Spec /\ DispatchFairness

\* the program with its status queries called at any time
NextQueries ==
  \/ Next
  \/ \E id \in JobIds : GetTaskStatus(id)
  \/ \E ok \in BOOLEAN : FindOneReturn(ok)
  \/ GetQueueStats
  \/ \E ok \in BOOLEAN : CountDocumentsReturn(ok)

SpecQueries == Init /\ [][NextQueries]_vars

\* the program with a crash and restart of its process at any time
NextCrash == Next \/ Crash

SpecCrash == Init /\ [][NextCrash]_vars

\* the state before any request reaches the task queue
QueueIdle ==
  /\ concurrency = 1
  /\ isRunning = FALSE
  /\ loops = 0
  /\ initialized = FALSE
  /\ queue = <<>>
  /\ processing = {}
  /\ timers = {}
  /\ jobs = [j \in JobIds |-> NoJob]
  /\ pc = [j \in JobIds |-> "none"]
  /\ hist = [j \in JobIds |-> <<>>]
  /\ db = [j \in JobIds |-> NoRecord]
  /\ emitted = [j \in JobIds |-> [e \in EventNames |-> 0]]
  /\ ret = NoRet
  /\ addOrder = <<>>
  /\ query = NoQuery
  /\ crashes = 0
  /\ inFlightAtCrash = {}

\* one crawl of any kind against any answer of the site
InitCrawl ==
  /\ QueueIdle
  /\ crawl \in CrawlInputs
  /\ env = "unset"
  /\ saves = [c \in Calls |-> NoSave]
  /\ articles = <<>>
  /\ pastes = <<>>
  /\ now = 1
  /\ CallsIdle

NextCrawl == CrawlArticleReturn \/ CrawlPasteReturn

SpecCrawl == InitCrawl /\ [][NextCrawl]_vars

\* saveArticleDirectly called up to MaxCalls times, at any time, for one
\* article id that the store may already hold
InitSave ==
  /\ QueueIdle
  /\ crawl = NoCrawl
  /\ env \in Envs
  /\ saves = [c \in Calls |-> NoSave]
  /\ articles \in {<<>>, <<NewArticle(ContentRecord(1), 0)>>}
  /\ pastes = <<>>
  /\ now = 1
  /\ CallsIdle

NextSave ==
  \/ \E c \in Calls : SaveArticleDirectly(c)
  \/ \E c \in Calls : DelayDone(c)
  \/ \E c \in Calls, answer \in SaveAnswers : CrawlDone(c, answer, ContentRecord(1))
  \/ \E c \in Calls : BackoffDone(c)
  \/ \E c \in Calls, ok \in BOOLEAN, text \in StoreErrors : FindOneDone(c, ok, text)
  \/ \E c \in Calls, ok \in BOOLEAN, text \in StoreErrors : SaveDone(c, ok, text)
  \/ \E c \in Calls, ok \in BOOLEAN, text \in StoreErrors : MetadataDone(c, ok, text)
  \/ \E c \in Calls : CatchBackoffDone(c)

SpecSave == InitSave /\ [][NextSave]_vars

\* the pages the site serves for the target
ContentRecords == {ContentRecord(v) : v \in 1..MaxVersions}

\* the call (or the job) is over; its caller has the result
Over(call) ==
  \/ call.pc \in {"rejected", "settled"}
  \/ call.pc = "done" /\ call.handler.status = "none"

\* a request is served when no other is under way
Serial(c) == c = 1 /\ now <= MaxClock

\* the result has been taken: the call is gone
Returned(c) ==
  /\ Over(saves[c])
  /\ saves' = [saves EXCEPT ![c] = NoSave]
  /\ UNCHANGED <<queueState, ret, query, crashVars, crawl, env, articles, pastes, now, callVars>>

\* save requests for one article id and one paste id, served one after the
\* other: direct calls, from-task calls and save jobs, against a store that
\* may already hold the entities
InitUpsert ==
  /\ QueueIdle
  /\ crawl = NoCrawl
  /\ env \in {"unset", "1"}
  /\ saves = [c \in Calls |-> NoSave]
  /\ articles \in {<<>>, <<NewArticle(ContentRecord(1), 0)>>}
  /\ pastes \in {<<>>, <<NewPaste(ContentRecord(1), 0)>>}
  /\ now = 1
  /\ CallsIdle

NextUpsert ==
  \/ \E c \in Calls : Serial(c) /\ SaveArticleDirectly(c)
  \/ \E c \in Calls : Serial(c) /\ SavePasteDirectly(c)
  \/ \E c \in Calls, task \in TaskInputs : Serial(c) /\ SaveArticleFromTask(c, task)
  \/ \E c \in Calls, type \in {"article_save", "paste_save"} : Serial(c) /\ ProcessSave(c, type)
  \/ \E c \in Calls : Returned(c)
  \/ \E c \in Calls : DelayDone(c)
  \/ \E c \in Calls, answer \in SaveAnswers, record \in ContentRecords :
        CrawlDone(c, answer, record)
  \/ \E c \in Calls : BackoffDone(c)
  \/ \E c \in Calls, ok \in BOOLEAN, text \in StoreErrors : FindOneDone(c, ok, text)
  \/ \E c \in Calls, ok \in BOOLEAN, text \in StoreErrors : SaveDone(c, ok, text)
  \/ \E c \in Calls, ok \in BOOLEAN, text \in StoreErrors : MetadataDone(c, ok, text)
  \/ \E c \in Calls : CatchBackoffDone(c)
  \/ \E c \in Calls, answer \in PasteAnswers, record \in ContentRecords :
        PasteCrawlDone(c, answer, record)
  \/ \E c \in Calls, ok \in BOOLEAN : PasteFindOneDone(c, ok, "store error")
  \/ \E c \in Calls, ok \in BOOLEAN : PasteSaveDone(c, ok, "store error")
  \/ \E c \in Calls, ok \in BOOLEAN : TaskFindByIdDone(c, ok, "store error")
  \/ \E c \in Calls, ok \in BOOLEAN : StartProcessingDone(c, ok, "store error")
  \/ \E c \in Calls, answer \in SaveAnswers, record \in ContentRecords :
        TaskCrawlDone(c, answer, record)
  \/ \E c \in Calls, ok \in BOOLEAN : TaskFailDone(c, ok, "store error")
  \/ \E c \in Calls, ok \in BOOLEAN : TaskFindOneDone(c, ok, "store error")
  \/ \E c \in Calls, ok \in BOOLEAN : TaskSaveDone(c, ok, "store error")
  \/ \E c \in Calls, ok \in BOOLEAN : TaskMetadataDone(c, ok, "store error")
  \/ \E c \in Calls, ok \in BOOLEAN : TaskCompleteDone(c, ok, "store error")
  \/ \E c \in Calls, ok \in BOOLEAN : CatchFindByIdDone(c, ok, "store error")
  \/ \E c \in Calls, ok \in BOOLEAN : CatchFailDone(c, ok, "store error")
  \/ \E c \in Calls : HandlerSettled(c)
  \/ \E c \in Calls : HandlerRetry(c)

SpecUpsert == InitUpsert /\ [][NextUpsert]_vars

\* saveArticleFromTask calls for one task id, each called while the others
\* are under way or over: the awaits of the calls interleave
InitFromTask ==
  /\ QueueIdle
  /\ crawl = NoCrawl
  /\ env = "unset"
  /\ saves = [c \in Calls |-> NoSave]
  /\ articles = <<>>
  /\ pastes = <<>>
  /\ now = 1
  /\ fetch = NoFetch
  /\ truncation = NoTruncation
  /\ merging = NoMerging
  /\ taskDoc \in TaskInputs

NextFromTask ==
  \/ \E c \in Calls : SaveArticleFromTask(c, taskDoc)
  \/ \E c \in Calls, ok \in BOOLEAN : TaskFindByIdDone(c, ok, "store error")
  \/ \E c \in Calls, ok \in BOOLEAN : StartProcessingDone(c, ok, "store error")
  \/ \E c \in Calls, answer \in SaveAnswers, record \in ContentRecords :
        TaskCrawlDone(c, answer, record)
  \/ \E c \in Calls, ok \in BOOLEAN : TaskFailDone(c, ok, "store error")
  \/ \E c \in Calls, ok \in BOOLEAN : TaskFindOneDone(c, ok, "store error")
  \/ \E c \in Calls, ok \in BOOLEAN : TaskSaveDone(c, ok, "store error")
  \/ \E c \in Calls, ok \in BOOLEAN : TaskMetadataDone(c, ok, "store error")
  \/ \E c \in Calls, ok \in BOOLEAN : TaskCompleteDone(c, ok, "store error")
  \/ \E c \in Calls, ok \in BOOLEAN : CatchFindByIdDone(c, ok, "store error")
  \/ \E c \in Calls, ok \in BOOLEAN : CatchFailDone(c, ok, "store error")

SpecFromTask == InitFromTask /\ [][NextFromTask]_vars

\* one call of fetchContent in either cookie mode, with any answers
InitFetch ==
  /\ QueueIdle
  /\ crawl = NoCrawl
  /\ env = "unset"
  /\ saves = [c \in Calls |-> NoSave]
  /\ articles = <<>>
  /\ pastes = <<>>
  /\ now = 1
  /\ truncation = NoTruncation
  /\ merging = NoMerging
  /\ taskDoc = "missing"
  /\ fetch \in {FetchCalled(mode, cookie) : mode \in {"new", "legacy"}, cookie \in CallerCookies}

NextFetch ==
  \/ \E answer \in FetchAnswers : FirstAnswer(answer)
  \/ \E answer \in FetchAnswers : ReissueAnswer(answer)
  \/ \E answer \in FetchAnswers : LegacyAnswer(answer)

SpecFetch == InitFetch /\ [][NextFetch]_vars

\* one call of mergeSetCookieToHeaders, and its repetition, with any Cookie
\* header and any Set-Cookie list
InitMerge ==
  /\ QueueIdle
  /\ crawl = NoCrawl
  /\ env = "unset"
  /\ saves = [c \in Calls |-> NoSave]
  /\ articles = <<>>
  /\ pastes = <<>>
  /\ now = 1
  /\ fetch = NoFetch
  /\ truncation = NoTruncation
  /\ taskDoc = "missing"
  /\ merging \in {[pc |-> "called", cookie |-> c,
                   response |-> Response(302, TRUE, s, FALSE), once |-> <<>>, twice |-> <<>>] :
                    c \in ListsOf(CookieStrings, MaxCookies),
                    s \in ListsOf(CookieStrings, MaxCookies)}

NextMerge == MergeReturn \/ MergeAgainReturn

SpecMerge == InitMerge /\ [][NextMerge]_vars

\* one call of truncateUtf8 with any text and any limit
InitTruncate ==
  /\ QueueIdle
  /\ crawl = NoCrawl
  /\ env = "unset"
  /\ saves = [c \in Calls |-> NoSave]
  /\ articles = <<>>
  /\ pastes = <<>>
  /\ now = 1
  /\ fetch = NoFetch
  /\ merging = NoMerging
  /\ taskDoc = "missing"
  /\ truncation \in {[pc |-> "called", text |-> s, maxLength |-> n, result |-> <<>>] :
                       s \in TextsOf(MaxChars), n \in 0..MaxLength}

NextTruncate == TruncateUtf8Return

SpecTruncate == InitTruncate /\ [][NextTruncate]_vars

\* ================================================================== claims
InFlightStatus == {j \in JobIds : jobs[j].status = "processing"}

\* C1: at every moment the number of jobs whose status is 'processing', and
\* the size of the in-flight set, are at most the configured concurrency.
C1_ConcurrencyBound ==
  /\ Cardinality(processing) <= concurrency
  /\ Cardinality(InFlightStatus) <= concurrency

\* C1 witness: every slot is taken by a running job while a pending job waits
C1_Witness ==
  /\ Cardinality(InFlightStatus) = concurrency
  /\ queue # <<>>
  /\ jobs[Head(queue)].status = "pending"

\* a job the scheduler knows: it has been put into the queue
Known(j) == jobs[j].status # "none" /\ pc[j] \notin {"saving", "saved"}

\* C2: for every job known to the scheduler, whatever options.maxAttempts it
\* was created with, attempts <= maxAttempts at every moment.
C2_AttemptsWithinMax ==
  \A j \in JobIds : Known(j) => jobs[j].attempts <= jobs[j].maxAttempts

\* the status changes a job has gone through
EdgesOf(h) == {<<h[i], h[i + 1]>> : i \in 1..(Len(h) - 1)}

\* the state machine as the specification draws it: a retry passes through failed
SpecEdges ==
  {<<"pending", "processing">>, <<"processing", "completed">>,
   <<"processing", "failed">>, <<"failed", "pending">>, <<"pending", "cancelled">>}

\* C3 (as stated): every status sequence of a job is a path pending ->
\* processing -> completed, pending -> processing -> failed -> pending ... ->
\* failed, or pending -> cancelled.
C3_SpecStateMachine ==
  \A j \in JobIds :
     hist[j] # <<>> => hist[j][1] = "pending" /\ EdgesOf(hist[j]) \subseteq SpecEdges

\* the state machine of the code: a retry goes from processing straight to pending
CodeEdges ==
  {<<"pending", "processing">>, <<"processing", "completed">>,
   <<"processing", "failed">>, <<"processing", "pending">>, <<"pending", "cancelled">>}

\* C3 (amended): every status sequence of a job starts at pending and moves
\* only pending -> processing, processing -> completed, processing -> pending
\* (retry), processing -> failed (terminal) or pending -> cancelled; so
\* cancelled is entered only from pending, and completed, failed and
\* cancelled are never left.
C3_CodeStateMachine ==
  \A j \in JobIds :
     hist[j] # <<>> =>
       /\ hist[j][1] = "pending"
       /\ hist[j][Len(hist[j])] = jobs[j].status
       /\ EdgesOf(hist[j]) \subseteq CodeEdges

\* C3 witness: a job that ran, was put back to pending and then cancelled
C3_Witness ==
  \E j \in JobIds :
     /\ Len(hist[j]) >= 4
     /\ <<"processing", "pending">> \in EdgesOf(hist[j])
     /\ jobs[j].status = "cancelled"

\* C4: every job that enters processing (its id is put into the in-flight
\* set) eventually leaves it, whatever the handler does and whether or not
\* the store accepts the updates: processJob ends with the job completed,
\* pending (retry) or failed and its id out of the in-flight set.
C4_LeavesProcessing ==
  \A j \in JobIds :
     (j \in processing) ~>
        (j \notin processing /\ jobs[j].status \in {"completed", "pending", "failed"})

\* C4 witness: a job of a type the dispatcher does not know has failed for
\* good, no store update got through, and processJob has ended
C4_Witness ==
  \E j \in JobIds :
     /\ jobs[j].type \notin HandledTypes
     /\ jobs[j].status = "failed"
     /\ db[j].status = "pending"
     /\ pc[j] = "idle"
     /\ j \notin processing

\* C5, first half: a job cancelled while pending went straight from pending
\* to cancelled, stays cancelled, and nothing runs it afterwards
CancelledIsFinal(j) ==
  \A i \in 1..Len(hist[j]) :
     hist[j][i] = "cancelled" =>
       /\ i = Len(hist[j])
       /\ i > 1 /\ hist[j][i - 1] = "pending"
       /\ j \notin processing
       /\ j \notin Range(queue)
       /\ j \notin timers
       /\ pc[j] \in {"cancelPersist", "idle"}

\* C5: a job cancelled by cancelTask while pending goes directly to
\* cancelled and is never dispatched afterwards; cancelTask for a completed
\* job returns false and leaves its in-memory and persisted state unchanged.
C5_CancelScenario ==
  /\ [](\A j \in JobIds : CancelledIsFinal(j))
  /\ [][\A j \in JobIds :
          (CancelTask(j) /\ jobs[j].status = "completed") =>
             (ret' = "false" /\ jobs' = jobs /\ db' = db /\ hist' = hist)]_vars

\* C5 witness: one job was cancelled before it ever ran, another one has
\* completed, and a cancelTask call has just returned false
C5_Witness ==
  \E j, k \in JobIds :
     /\ jobs[j].status = "cancelled" /\ Runs(j) = 0 /\ pc[j] = "idle"
     /\ jobs[k].status = "completed"
     /\ ret = "false"

\* C6: cancelTask returns true exactly when the job is in the pending queue
\* at the call (a call that found it there ends by returning true); a call
\* that does not find it returns false without throwing and changes nothing.
C6_CancelReturn ==
  [][\A j \in JobIds :
       /\ (pc[j] = "cancelPersist" /\ pc'[j] # "cancelPersist") => ret' = "true"
       /\ (CancelTask(j) /\ FindIndex(queue, j) = -1) =>
            (ret' = "false" /\ UNCHANGED <<queue, processing, jobs, db, emitted>>)]_vars

\* C7: a job that has failed for good was run exactly maxAttempts times, one
\* jobFailed was emitted for it, and it is neither queued nor waiting on a
\* retry timer.
C7_FailedAfterMaxAttempts ==
  \A j \in JobIds :
     jobs[j].status = "failed" =>
       /\ Runs(j) = jobs[j].maxAttempts
       /\ emitted[j]["jobFailed"] = 1
       /\ j \notin Range(queue)
       /\ j \notin timers

\* two jobs are equivalent: same type and the same serialized payload
Equivalent(j, k) ==
  /\ jobs[j].type = jobs[k].type
  /\ JSONStringify(jobs[j].payload) = JSONStringify(jobs[k].payload)

\* C8 (as stated): of the jobs with one (type, payload) at most one is in
\* processing at any time.
C8_OneProcessingPerPayload ==
  \A j, k \in JobIds :
     (j # k /\ jobs[j].status = "processing" /\ jobs[k].status = "processing")
        => ~Equivalent(j, k)

\* a job whose retry was declined: pending, but neither queued, in flight nor
\* waiting on a timer
Dropped(j) ==
  /\ jobs[j].status = "pending" /\ pc[j] = "idle" /\ Runs(j) > 0
  /\ j \notin Range(queue) /\ j \notin timers /\ j \notin processing

\* C8 (amended): when a job fails with attempts left, its retry is declined
\* exactly when an equivalent job is in the queue at that moment; a declined
\* job is not re-enqueued and never runs again.
C8_RetryDeclinedForDuplicate ==
  [][\A j \in JobIds :
       /\ (pc[j] \notin {"persistSkip", "persistRetry"} /\ pc'[j] = "persistSkip")
            => \E i \in 1..Len(queue') : Equivalent(queue'[i], j)
       /\ (pc[j] \notin {"persistSkip", "persistRetry"} /\ pc'[j] = "persistRetry")
            => ~\E i \in 1..Len(queue') : Equivalent(queue'[i], j)
       /\ (pc[j] = "persistSkip" \/ Dropped(j))
            => (j \notin Range(queue') /\ j \notin timers' /\ hist'[j] = hist[j])]_vars

\* C8 witness: a job's retry was declined and the equivalent job was run
C8_Witness ==
  \E j, k \in JobIds :
     /\ j # k /\ Dropped(j) /\ Equivalent(j, k)
     /\ jobs[k].status = "completed"

\* C9, state part: while addTask is suspended after a successful save the
\* record is stored and the queue and the notifications are untouched; no
\* job gets more than one jobAdded
SavedBeforeQueued ==
  \A j \in JobIds :
     /\ pc[j] = "saved" =>
          (db[j].status = "pending" /\ j \notin Range(queue) /\ emitted[j]["jobAdded"] = 0)
     /\ pc[j] = "saving" => (db[j].status = "none" /\ j \notin Range(queue))
     /\ emitted[j]["jobAdded"] <= 1

\* C9: addTask persists the record before it touches the queue; on success
\* the job is appended at the tail with status pending, progress 0 and
\* attempts 0, and one jobAdded is emitted; if the save fails addTask
\* rejects, the queue is unchanged and nothing is emitted.
C9_AddTask ==
  /\ []SavedBeforeQueued
  /\ [][\A j \in JobIds :
          /\ (pc[j] = "saved" /\ pc'[j] # "saved") =>
               /\ queue' = Append(queue, j)
               /\ jobs'[j].status = "pending"
               /\ jobs'[j].progress = 0
               /\ jobs'[j].attempts = 0
               /\ emitted' = [emitted EXCEPT ![j]["jobAdded"] = 1]
               /\ ret' = "id"
          /\ (pc[j] = "saving" /\ pc'[j] = "none") =>
               /\ ret' = "throw"
               /\ UNCHANGED <<queue, emitted, db>>
          /\ (j \in Range(queue') /\ j \notin Range(queue) /\ Runs(j) = 0) =>
               pc[j] \in {"saved", "none"}]_vars

\* C9 witness: addTask has just returned the id of a job that it put behind
\* another queued job
C9_Witness ==
  /\ ret = "id"
  /\ Len(queue) >= 2
  /\ pc[queue[Len(queue)]] = "idle"
  /\ emitted[queue[Len(queue)]]["jobAdded"] = 1
  /\ Runs(queue[Len(queue)]) = 0

\* C10: jobs that have never failed are dispatched in the order in which
\* their addTask calls completed: when a job has started, every job
\* submitted before it has started too, unless it was cancelled.
C10_Fifo ==
  \A i, k \in 1..Len(addOrder) :
     (i < k /\ Runs(addOrder[k]) > 0) =>
        (Runs(addOrder[i]) > 0 \/ jobs[addOrder[i]].status = "cancelled")

\* C10 witness: two addTask calls completed in the opposite order of their
\* start, the first to complete has run, the other one is still waiting
\* behind a retried job
C10_Witness ==
  /\ Len(addOrder) = 2
  /\ addOrder[1] > addOrder[2]
  /\ Runs(addOrder[1]) > 0
  /\ Runs(addOrder[2]) = 0
  /\ addOrder[2] \in Range(queue)

\* C11: getTaskStatus of a job that is in flight answers from the job object
\* in memory (status processing, its current progress); the store is read
\* only for ids that are neither queued nor in flight; an id known to
\* neither yields null.
C11_GetTaskStatus ==
  [][/\ \A id \in JobIds :
          GetTaskStatus(id) =>
            /\ id \in processing =>
                 /\ query'.op = "memory"
                 /\ query'.status = "processing"
                 /\ query'.progress = jobs[id].progress
            /\ query'.op = "findOne" => (id \notin Range(queue) /\ id \notin processing)
     /\ \A ok \in BOOLEAN :
          (FindOneReturn(ok) /\ ok /\ db[query.id].status = "none"
             /\ jobs[query.id].status = "none") => query'.op = "null"]_vars

\* C12: getQueueStats reports as active the size of the in-flight set and as
\* waiting the number of pending jobs in the queue, both at the call.
C12_QueueStats ==
  [][GetQueueStats =>
       /\ query'.active = Cardinality(processing)
       /\ query'.waiting = Waiting]_vars

\* C13: a job that was in flight when the process crashed is not loaded
\* into the queue by initialize after the restart and is not run again.
C13_InFlightNotResumed ==
  \A j \in inFlightAtCrash :
     /\ j \notin Range(queue)
     /\ j \notin processing
     /\ jobs[j].status = "none"

\* the notifications that report the end of a run of job j
Outcomes(j) ==
  emitted[j]["jobCompleted"] + emitted[j]["jobFailed"] + emitted[j]["jobRetry"]

\* C14: every status transition of a job emits exactly one matching
\* notification: jobAdded on submit, jobStarted on each start, exactly one
\* of jobCompleted / jobFailed / jobRetry for each jobStarted before the job
\* can start again (no silent transition out of processing), and
\* jobCancelled on cancel.
C14_OneNotificationPerTransition ==
  \A j \in JobIds :
     /\ j \in Range(addOrder) => emitted[j]["jobAdded"] = 1
     /\ emitted[j]["jobStarted"] = Runs(j)
     /\ jobs[j].status = "processing" => Outcomes(j) = emitted[j]["jobStarted"] - 1
     /\ (pc[j] = "idle" /\ jobs[j].status # "processing") =>
          Outcomes(j) = emitted[j]["jobStarted"]
     /\ (pc[j] = "idle" /\ jobs[j].status = "cancelled") => emitted[j]["jobCancelled"] = 1

\* the response whose status decided the finished crawl
Final == FinalResponse(crawl.first, crawl.second)

\* the failure class a result message stands for
ClassOf(message) ==
  CASE message \in {"article login required", "paste login required"} -> "AuthRequired"
    [] message = "redirect" -> "UnexpectedRedirect"
    [] message \in {"article not found", "paste not found"} -> "NotFound"
    [] message \in {"article access denied", "paste access denied"} -> "Blocked"
    [] message = "auth expired" -> "AuthExpired"
    [] message = "http error" -> "HttpError"
    [] message \in {"login page", "challenge: interaction", "challenge: verification",
                    "challenge: captcha"} -> "ChallengeRequired"
    [] OTHER -> "Other"

\* the class the specification gives to a non-200 status
SpecClass(r) ==
  IF r.status >= 300 /\ r.status < 400
    THEN IF IncludesLogin(r.location) THEN "AuthRequired" ELSE "UnexpectedRedirect"
  ELSE IF r.status = 404 THEN "NotFound"
  ELSE IF r.status \in {403, 451} THEN "Blocked"
  ELSE IF r.status = 401 THEN "AuthExpired"
  ELSE "HttpError"

\* C18 as stated: the final status classifies the outcome, alike for both
\* kinds: 3xx to a login Location -> login required, every other 3xx ->
\* unexpected redirect, 404, 403/451, 401, any other non-200 -> HTTP error;
\* a non-200 answer is never a success and its failure carries the status.
C18_SpecClassification ==
  (crawl.kind # "none" /\ crawl.done /\ Final.status \notin {0, 200}) =>
     /\ ~crawl.result.success
     /\ crawl.result.statusCode = Final.status
     /\ ClassOf(crawl.result.message) = SpecClass(Final)

\* the class the code gives to a non-200 status: a 3xx is a redirect only
\* when it carries a Location header
CodeClass(r) ==
  IF r.status >= 300 /\ r.status < 400 /\ r.location # ""
    THEN IF IncludesLogin(r.location) THEN "AuthRequired" ELSE "UnexpectedRedirect"
  ELSE IF r.status = 404 THEN "NotFound"
  ELSE IF r.status \in {403, 451} THEN "Blocked"
  ELSE IF r.status = 401 THEN "AuthExpired"
  ELSE "HttpError"

\* C18 (amended): as C18, except that a 3xx answer without a Location
\* header is an HTTP error carrying the raw code, not a redirect.
C18_Classification ==
  (crawl.kind # "none" /\ crawl.done /\ Final.status \notin {0, 200}) =>
     /\ ~crawl.result.success
     /\ crawl.result.statusCode = Final.status
     /\ ClassOf(crawl.result.message) = CodeClass(Final)

\* C18 witness: a paste crawl whose reissued request was answered 451
C18_Witness ==
  /\ crawl.kind = "paste" /\ crawl.done
  /\ IsCookieRedirect(crawl.first)
  /\ Final.status = 451
  /\ crawl.result = Failure("paste access denied", 451)

\* a page that shows a login form, a continue control, a CAPTCHA input or
\* security-verification keywords
ShowsChallenge(pg) == pg.loginForm \/ pg.continueControl \/ pg.keywords \/ pg.captcha

\* C19: for both kinds a 200 page that shows a login form, a continue
\* control, a CAPTCHA input or verification keywords is reported as a
\* challenge/login failure and never as a success.
C19_ChallengeNeverSuccess ==
  (crawl.kind # "none" /\ crawl.done /\ Final.status = 200 /\ ~Final.page.json
     /\ ShowsChallenge(Final.page)) =>
     /\ ~crawl.result.success
     /\ ClassOf(crawl.result.message) = "ChallengeRequired"

\* the configured number of attempts: parseInt's value, none for NaN
MaxRetries == IF ParseInt(env).nan \/ ParseInt(env).n < 0 THEN 0 ELSE ParseInt(env).n

Blocked451(entry) == ~entry.success /\ entry.statusCode = 451

\* C15: saveArticleDirectly makes at most maxRetries crawl attempts; a 451
\* outcome on attempt k is followed by a wait of k x 5 s and then by another
\* attempt if one remains; any other failed outcome makes it return failure
\* at once, with no further crawl and no entity write in that attempt.
C15_RetryOn451Only ==
  \A c \in Calls :
     LET call == saves[c]
         n == Len(call.log) IN
       /\ n <= MaxRetries
       /\ call.attempt <= MaxRetries + 1
       /\ \A k \in 1..n :
            /\ (Blocked451(call.log[k]) /\ (k < n \/ call.pc \notin {"backoff"})) =>
                 /\ call.log[k].wait = 5 * k
                 /\ call.log[k].saves = 0
                 /\ (k = n /\ k < MaxRetries) =>
                      (call.pc \in {"delay", "crawl"} /\ call.attempt = k + 1)
                 /\ (k = n /\ k >= MaxRetries) => (call.pc = "done" /\ ~call.result.success)
            /\ (~call.log[k].success /\ ~Blocked451(call.log[k])) =>
                 /\ k = n
                 /\ call.pc = "done"
                 /\ ~call.result.success
                 /\ call.log[k].saves = 0
                 /\ call.log[k].wait = 0

\* C15 witness: a call that was answered 451, waited 5 s, tried again, was
\* answered 403 and returned failure
C15_Witness ==
  \E c \in Calls :
     /\ saves[c].pc = "done"
     /\ Len(saves[c].log) = 2
     /\ Blocked451(saves[c].log[1]) /\ saves[c].log[1].wait = 5
     /\ saves[c].log[2].statusCode = 403
     /\ ~saves[c].result.success

\* the number of save() calls that a call has made on the entity
EntityWrites(call) ==
  LET RECURSIVE Sum(_)
      Sum(k) == IF k = 0 THEN 0 ELSE call.log[k].saves + Sum(k - 1)
  IN Sum(Len(call.log))

\* the call was answered 451, 451 and then 200 with the article
BackoffScenario(call) ==
  /\ Len(call.log) >= 3
  /\ Blocked451(call.log[1]) /\ Blocked451(call.log[2])
  /\ call.log[3].success

\* C16: with maxRetries >= 3, 451 on attempts 1 and 2 and a valid 200 on
\* attempt 3 make saveArticleDirectly return success on the third attempt
\* (the store working), with the entity written once and a wait of at least
\* 5 s + 10 s before the third attempt.
C16_BackoffScenario ==
  \A c \in Calls :
     BackoffScenario(saves[c]) =>
        /\ saves[c].log[1].wait + saves[c].log[2].wait >= 15
        /\ (saves[c].pc = "done" /\ saves[c].lastError.type # "string") =>
             /\ saves[c].result.success
             /\ Len(saves[c].log) = 3
             /\ EntityWrites(saves[c]) = 1

\* C16 witness: the scenario ended in success
C16_Witness ==
  \E c \in Calls :
     /\ BackoffScenario(saves[c])
     /\ saves[c].pc = "done" /\ saves[c].result.success
     /\ articles # <<>>

\* C17: when every attempt ends with a 451 outcome the call returns
\* success = false with the string message of the last outcome; whatever
\* maxRetries is configured, a call ends by returning a result.
C17_ExhaustedMessage ==
  \A c \in Calls :
     LET call == saves[c] IN
       (call.pc = "done" /\ call.log # <<>>
          /\ \A k \in 1..Len(call.log) : Blocked451(call.log[k])) =>
          /\ ~call.result.success
          /\ call.result.message = String(call.log[Len(call.log)].message)

\* C20: whatever the interleaving of the save calls for one article id, the
\* store holds at most one Article with that luoguId, and a call that has
\* crawled the article while the store is working reports success (an
\* existing entity is updated in place).
C20_OneEntityPerId ==
  /\ Len(articles) <= 1
  /\ \A c \in Calls :
       LET call == saves[c] IN
         (call.pc = "done" /\ call.log # <<>> /\ call.log[Len(call.log)].success
            /\ call.lastError.text \notin StoreErrors) =>
            /\ call.result.success
            /\ articles # <<>>

\* the step writes a stored document again from the record it was last
\* written from
SecondRun(store) == store # <<>> /\ store' # store /\ store'[1].again

\* C21 (as stated): running the upsert twice with the same crawled record
\* leaves every field of the entity as the first run left it, crawledAt
\* alone advances, and no second entity is created.
C21_OnlyCrawledAtAdvances ==
  [][/\ SecondRun(articles) =>
          /\ Len(articles') = 1
          /\ articles'[1].crawledAt > articles[1].crawledAt
          /\ articles'[1] = [articles[1] EXCEPT !.crawledAt = articles'[1].crawledAt,
                                                !.again = TRUE]
     /\ SecondRun(pastes) =>
          /\ Len(pastes') = 1
          /\ pastes'[1].crawledAt > pastes[1].crawledAt
          /\ pastes'[1] = [pastes[1] EXCEPT !.crawledAt = pastes'[1].crawledAt,
                                            !.again = TRUE]]_vars

\* C21 (amended): running the upsert twice with the same crawled record
\* leaves the content fields (title, content, author id and name, category,
\* tags, publishedAt) and the status of the entity as the first run left
\* them; crawledAt and updatedAt both advance to the time of the second run,
\* and no second entity is created.
C21_Idempotent ==
  [][/\ SecondRun(articles) =>
          /\ Len(articles') = 1
          /\ articles'[1].crawledAt > articles[1].crawledAt
          /\ articles'[1].updatedAt > articles[1].updatedAt
          /\ articles'[1] = [articles[1] EXCEPT !.crawledAt = articles'[1].crawledAt,
                                                !.updatedAt = articles'[1].updatedAt,
                                                !.again = TRUE]
     /\ SecondRun(pastes) =>
          /\ Len(pastes') = 1
          /\ pastes'[1].crawledAt > pastes[1].crawledAt
          /\ pastes'[1].updatedAt > pastes[1].updatedAt
          /\ pastes'[1] = [pastes[1] EXCEPT !.crawledAt = pastes'[1].crawledAt,
                                            !.updatedAt = pastes'[1].updatedAt,
                                            !.again = TRUE]]_vars

\* an article and a paste have both been written twice from the same record
C21_Witness ==
  /\ articles # <<>> /\ articles[1].again /\ articles[1].status = "completed"
  /\ pastes # <<>> /\ pastes[1].again /\ pastes[1].status = "completed"

\* the call, or the job whose handler made it, has ended in failure
EndedFailed(call) ==
  \/ call.pc = "done" /\ call.handler.status = "none" /\ ~call.result.success
  \/ call.pc = "rejected"
  \/ call.handler.status = "failed"

\* C22: a save attempt whose crawl fails (direct call, from-task call, or a
\* job that ends failed) leaves the stored entities as they were: a call or
\* job that ends in failure without a successful crawl has written nothing,
\* the only steps that change a stored document are writes of a call whose
\* last crawl succeeded, and no step deletes a document or leaves one with a
\* status other than 'completed'.
C22_FailedCrawlLeavesEntity ==
  /\ [](\A c \in Calls : (EndedFailed(saves[c]) /\ saves[c].crawled = 0) => saves[c].wrote = 0)
  /\ [][(articles' # articles \/ pastes' # pastes) =>
          /\ \E c \in Calls :
                /\ saves'[c].wrote = saves[c].wrote + 1
                /\ saves[c].log # <<>> /\ saves[c].log[Len(saves[c].log)].success
          /\ Len(articles') >= Len(articles) /\ Len(pastes') >= Len(pastes)
          /\ \A i \in 1..Len(articles') : articles'[i].status = "completed"
          /\ \A i \in 1..Len(pastes') : pastes'[i].status = "completed"]_vars

\* a job has ended failed after three runs of its handler, none of which
\* crawled the page, while the store holds the article
C22_Witness ==
  \E c \in Calls :
     /\ saves[c].handler = [attempts |-> DefaultMaxAttempts, status |-> "failed"]
     /\ saves[c].kind = "direct" /\ saves[c].crawled = 0 /\ saves[c].wrote = 0
     /\ articles = <<NewArticle(ContentRecord(1), 0)>>

\* the units 0xD800-0xDBFF: the first half of a surrogate pair
IsHighSurrogate(charCode) == charCode >= 55296 /\ charCode <= 56319

IsPrefix(s, t) == Len(s) <= Len(t) /\ s = SubSeq(t, 1, Len(s))

\* C23: truncateUtf8(S, L) is at most L long, is a prefix of S, is S when S
\* fits, and never ends in the middle of a character (its last unit is not
\* the first half of a surrogate pair).
C23_TruncateUtf8 ==
  truncation.pc = "returned" =>
    LET S == truncation.text
        L == truncation.maxLength
        T == truncation.result IN
      /\ Len(T) <= L
      /\ IsPrefix(T, S)
      /\ (Len(S) <= L => T = S)
      /\ (T # <<>> => ~IsHighSurrogate(T[Len(T)]))

\* C24: the error recorded on a job and written to its Task record holds a
\* message (and a classification tag) and nothing else of the exception.
C24_ErrorIsMessageOnly ==
  \A j \in JobIds :
     /\ jobs[j].error \subseteq {"message", "tag"}
     /\ db[j].error \subseteq {"message", "tag"}

\* min(5000 * 2^attempts, 60000)
ClaimedDelay(attempts) ==
  LET doubled == 5000 * 2^attempts IN IF doubled <= 60000 THEN doubled ELSE 60000

\* C25: after a handler failure that leaves attempts < maxAttempts the delay
\* is min(5000 * 2^attempts, 60000) ms for the incremented attempts; it never
\* decreases from one retry of a job to the next and never exceeds 60000;
\* and from the failure until the timer with that delay fires the job is
\* neither in the queue nor in flight: it comes back by the timer alone.
C25_RetryDelay ==
  /\ [](\A j \in JobIds :
          /\ jobs[j].delay <= 60000
          /\ (jobs[j].attempts > 0 /\ jobs[j].status = "pending")
                => jobs[j].delay = ClaimedDelay(jobs[j].attempts)
          /\ j \in timers =>
               /\ j \notin Range(queue) /\ j \notin processing
               /\ jobs[j].status = "pending"
               /\ jobs[j].attempts < jobs[j].maxAttempts)
  /\ [][\A j \in JobIds :
          /\ jobs[j].type # "none" => jobs'[j].delay >= jobs[j].delay
          /\ (jobs[j].attempts > 0 /\ j \notin Range(queue) /\ j \in Range(queue'))
                => (j \in timers /\ j \notin timers')]_vars

\* the cap is reached: a job waits 60000 ms for its fifth attempt
C25_Witness ==
  \E j \in JobIds :
     /\ j \in timers /\ jobs[j].attempts = 4
     /\ jobs[j].delay = 60000 /\ 5000 * 2^4 > 60000

\* how many times job j is in the queue q
Occurrences(q, j) == Cardinality({i \in 1..Len(q) : q[i] = j})

\* C26: when a handler fails with attempts < maxAttempts and the queue holds
\* at that moment a job with the same type and an equal payload, the failing
\* job gets no timer, is not re-enqueued, and its record is left pending in
\* the store; otherwise its record is pending in the store when the timer is
\* set, and the timer puts the job back into the queue exactly once.
C26_RetryOrDrop ==
  [][\A j \in JobIds :
       /\ (pc[j] \notin {"persistSkip", "persistRetry"}
             /\ pc'[j] \in {"persistSkip", "persistRetry"}) =>
            /\ jobs'[j].status = "pending"
            /\ jobs'[j].attempts < jobs'[j].maxAttempts
            /\ (pc'[j] = "persistSkip") <=> (\E i \in 1..Len(queue') : Equivalent(queue'[i], j))
            /\ j \notin timers' /\ j \notin Range(queue')
       /\ (pc[j] = "persistSkip" /\ pc'[j] # "persistSkip") =>
            /\ db'[j].status = "pending"
            /\ timers' = timers /\ j \notin timers
            /\ queue' = queue /\ j \notin Range(queue)
       /\ (pc[j] = "persistRetry" /\ pc'[j] # "persistRetry") =>
            /\ db'[j].status = "pending"
            /\ j \notin timers /\ timers' = timers \cup {j}
            /\ queue' = queue /\ j \notin Range(queue)
       /\ (j \in timers /\ j \notin timers') =>
            /\ Occurrences(queue, j) = 0 /\ Occurrences(queue', j) = 1
            /\ Len(queue') = Len(queue) + 1
       /\ (jobs[j].attempts > 0 /\ Occurrences(queue', j) > Occurrences(queue, j)) =>
            (j \in timers /\ j \notin timers')]_vars

\* of two equal jobs one was dropped when it failed while the other was
\* queued, and the other failed later and waits on its timer; both records
\* are pending
C26_Witness ==
  \E j, k \in JobIds :
     /\ j # k /\ Equivalent(j, k)
     /\ Dropped(j) /\ db[j].status = "pending"
     /\ k \in timers /\ db[k].status = "pending"

\* job j is in front of job k in the queue q
Before(q, j, k) == \E a, b \in 1..Len(q) : a < b /\ q[a] = j /\ q[b] = k

\* job k leaves the queue in this step because the dispatch loop took it
Dispatched(k) ==
  /\ Occurrences(queue, k) > Occurrences(queue', k)
  /\ jobs'[k].status # "cancelled"

\* C27: a retried job whose timer fires is inserted at the front of the
\* queue, and from then on no job behind it is dispatched, or gets in front
\* of it, while it is in the queue: it is dispatched before every job that was
\* in the queue when it was inserted, never-tried jobs included.
C27_RetryGoesFirst ==
  [][\A j \in JobIds :
       /\ (j \in timers /\ j \notin timers') => queue' = <<j>> \o queue
       /\ \A k \in JobIds \ {j} :
            (jobs[j].attempts > 0 /\ Before(queue, j, k)) =>
              /\ ~Dispatched(k)
              /\ (j \in Range(queue') /\ k \in Range(queue')) =>
                   (Before(queue', j, k) /\ ~Before(queue', k, j))]_vars

\* a retried job stands in the queue in front of a job that never ran
C27_Witness ==
  \E j, k \in JobIds :
     /\ queue = <<j, k>>
     /\ jobs[j].attempts > 0 /\ jobs[j].status = "pending"
     /\ hist[k] = <<"pending">>

\* C28: the completed state is in the store before jobCompleted is emitted,
\* and the failed state before jobFailed: whenever a job's terminal
\* notification has been emitted, its record in the store has that terminal
\* status.
C28_PersistedBeforeNotified ==
  \A j \in JobIds :
     /\ emitted[j]["jobCompleted"] > 0 => db[j].status = "completed"
     /\ emitted[j]["jobFailed"] > 0 => db[j].status = "failed"

\* the answer is a redirect or a challenge page
IsRedirect(resp) == resp.code = "" /\ resp.status >= 300 /\ resp.status < 400
IsChallenge(resp) == resp.code = "" /\ (IsRedirect(resp) \/ resp.token)

\* C29: one call of fetchContent issues at most two GET requests in either
\* cookie mode, whatever the answers are; and when the reissued request is
\* answered with a redirect or a challenge again, the call returns that
\* response.
C29_AtMostTwoGets ==
  fetch.pc # "none" =>
    /\ fetch.gets <= 2
    /\ (fetch.pc = "done" /\ IsChallenge(fetch.second)) =>
          (fetch.outcome = "returned" /\ fetch.resp = fetch.second)

\* C30: in cookie mode "new", the merge-and-reissue step is performed for a
\* first response exactly when it is a redirect (status 300-399) that
\* carries Set-Cookie.
C30_ReissueForRedirectWithSetCookie ==
  (fetch.pc # "none" /\ fetch.mode = "new" /\ fetch.first.status # 0) =>
    (fetch.reissued <=> (IsRedirect(fetch.first) /\ fetch.first.setCookie # <<>>))

\* C30, amended: in cookie mode "new", the request is reissued exactly when
\* the first response has status 302 and a Location header; the reissue is
\* sent with the Cookie header that mergeSetCookieToHeaders makes of the
\* response (the header is unchanged when the response carries none), it is the
\* second and last GET, and a response that is not reissued for is returned
\* with the headers as they were.
C30_ReissueFor302WithLocation ==
  (fetch.pc # "none" /\ fetch.mode = "new" /\ fetch.first.status # 0) =>
    /\ fetch.reissued <=> (fetch.first.status = 302 /\ fetch.first.location)
    /\ fetch.reissued =>
         /\ fetch.gets = 2
         /\ fetch.sent = fetch.h
         /\ fetch.h = MergeSetCookieToHeaders(fetch.first, fetch.given)
         /\ fetch.first.setCookie = <<>> => fetch.h = fetch.given
    /\ ~fetch.reissued =>
         /\ fetch.gets = 1 /\ fetch.h = fetch.given
         /\ fetch.pc = "done" /\ fetch.outcome = "returned" /\ fetch.resp = fetch.first

\* a 302 with Location and Set-Cookie was answered to a caller that had a
\* cookie of the same name; the reissue went out with the new value and its
\* response was returned
C30_Witness ==
  /\ fetch.pc = "done" /\ fetch.mode = "new" /\ fetch.reissued
  /\ fetch.first.setCookie # <<>> /\ fetch.given # <<>>
  /\ fetch.h # fetch.given
  /\ fetch.outcome = "returned" /\ fetch.resp = fetch.second

\* the cookie string of the list s that speaks last for its name
SpeaksLast(s, i) == \A j \in (i + 1)..Len(s) : s[j][1] # s[i][1]

\* the header r gives the cookie string c's name the whole of c's value
Maps(r, c) == \E k \in 1..Len(r) : r[k][1] = c[1] /\ Tail(r[k]) = Tail(c)

\* C31: after mergeSetCookieToHeaders every name returned in Set-Cookie
\* maps to its returned value, every name that was present and was not
\* returned keeps its old value, a second merge of the same Set-Cookie list
\* changes nothing, and a response without Set-Cookie leaves the header as
\* it was.
C31_MergedCookieMap ==
  merging.pc \in {"merged", "merged again"} =>
    LET s == merging.response.setCookie
        c == merging.cookie
        r == merging.once
    IN /\ s = <<>> => r = c
       /\ \A i \in 1..Len(s) : SpeaksLast(s, i) => Maps(r, s[i])
       /\ \A i \in 1..Len(c) :
            (SpeaksLast(c, i) /\ \A j \in 1..Len(s) : s[j][1] # c[i][1]) => Maps(r, c[i])
       /\ merging.pc = "merged again" => merging.twice = merging.once

\* C32: every job held in the in-memory queue has status pending (no job
\* that is processing, completed, failed or cancelled is in the queue), so
\* the dispatch loop starts every job it takes from the queue.
C32_QueueHoldsPendingJobs ==
  /\ [](\A i \in 1..Len(queue) : jobs[queue[i]].status = "pending")
  /\ [][\A j \in JobIds :
          (Occurrences(queue, j) > Occurrences(queue', j) /\ jobs'[j].status # "cancelled") =>
            (Len(hist'[j]) > Len(hist[j]) /\ hist'[j][Len(hist[j]) + 1] = "processing")]_vars

\* a retried job is back in the queue and another job was cancelled out of it
C32_Witness ==
  \E j, k \in JobIds :
     /\ j \in Range(queue) /\ jobs[j].attempts > 0
     /\ jobs[k].status = "cancelled" /\ k \notin Range(queue)

\* a processJob invocation on the job object j has not ended
Running(j) == pc[j] \in {"handler", "persistFailed", "persistRetry", "persistSkip", "finalPersist"}

\* C33: no job id is in the queue and in the in-flight set at once, the
\* queue never holds the same job id twice, and no job id is being executed
\* by two processJob invocations at the same time, also when initialize()
\* is called again.
C33_OneCopyOfEachJob ==
  /\ \A i \in 1..Len(queue) : IdOf(queue[i]) \notin processing
  /\ \A i, k \in 1..Len(queue) : i # k => IdOf(queue[i]) # IdOf(queue[k])
  /\ \A j, k \in JobIds : (j # k /\ Running(j) /\ Running(k)) => IdOf(j) # IdOf(k)
  /\ \A j \in JobIds : Running(j) => (j \notin Range(queue) /\ j \notin timers)

Terminal(j) == jobs[j].status \in {"completed", "failed", "cancelled"}

\* C34: while the dispatch loop keeps running, handlers end and timers fire,
\* every job that addTask has enqueued eventually reaches a terminal status
\* (completed, failed or cancelled).
C34_EveryJobEnds ==
  \A j \in JobIds : (j \in Range(addOrder)) ~> Terminal(j)

\* processJob is started on job object j in this step
Starts(j) ==
  /\ Len(hist'[j]) > Len(hist[j])
  /\ hist'[j][Len(hist[j]) + 1] = "processing"

\* C35: after any sequence of start and stop calls at most one dispatch
\* loop is alive, and no job goes from pending to processing while the
\* queue is stopped.
C35_OneDispatchLoop ==
  /\ [](loops <= 1)
  /\ [][\A j \in JobIds : Starts(j) => isRunning']_vars

\* C36: cancelTask on any job whose status is pending, a job waiting out
\* its retry delay included, takes the job out, returns true, and the job
\* never runs again.
C36_PendingIsCancellable ==
  [][\A j \in JobIds :
       /\ (jobs[j].status = "pending" /\ pc[j] = "idle" /\ CancelTask(IdOf(j))) =>
            (jobs'[j].status = "cancelled" /\ j \notin Range(queue') /\ j \notin timers')
       /\ (pc[j] = "cancelPersist" /\ pc'[j] # "cancelPersist") => ret' = "true"
       /\ jobs[j].status = "cancelled" => ~Starts(j)]_vars

\* C37: whenever cancelTask returns true, the record of that job in the
\* store has status cancelled, for a job made by addTask and for a job
\* loaded at bootstrap alike; and a record that is cancelled is never
\* loaded into the queue again.
C37_CancelIsPersisted ==
  /\ [][\A j \in JobIds :
          (pc[j] = "cancelPersist" /\ pc'[j] = "idle" /\ ret' = "true") =>
            db'[IdOf(j)].status = "cancelled"]_vars
  /\ [](\A j \in JobIds :
          db[j].status = "cancelled" => jobs[j].status \in {"none", "cancelled"})

\* the job object j waits for a run, and the store holds its record as one
\* that loadPendingTasks asks for
WaitsPersisted(j) ==
  /\ jobs[j].status = "pending" /\ pc[j] = "idle"
  /\ j \in Range(queue) \/ j \in timers
  /\ db[IdOf(j)].status = "pending" /\ db[IdOf(j)].type \in LoadedTypes

\* C38: a pending job that the scheduler has persisted comes back from
\* loadPendingTasks after a restart with the id, type, payload, attempts and
\* maxAttempts it had in memory before the restart.
C38_ReloadRoundTrip ==
  [][crashes' > crashes =>
       \A j \in JobIds :
          WaitsPersisted(j) =>
            LET loaded == LoadedJob(IdOf(j), db'[IdOf(j)]) IN
              /\ loaded.id = jobs[j].id
              /\ loaded.type = jobs[j].type
              /\ loaded.payload = jobs[j].payload
              /\ loaded.attempts = jobs[j].attempts
              /\ loaded.maxAttempts = jobs[j].maxAttempts]_vars

\* the call was turned away by the status check of saveArticleFromTask
Refused(call) ==
  call.pc = "done" /\ call.result.message = String("task status invalid")

\* the call has passed the status check and called startProcessing()
Started(call) ==
  call.kind = "task" /\ call.task \in {"processing", "failed", "completed"} /\ ~Refused(call)

\* C39: a persisted task is processed by at most one saveArticleFromTask
\* invocation: of the invocations for one task id that interleave, no two
\* crawl, startProcessing() is only ever written to a task that is still
\* pending, the invocation that the status check turns away does not modify
\* the task, and an invocation that did start and is over leaves the task
\* completed or failed, never processing
C39_OneInvocationProcesses ==
  /\ [](\A c, d \in Calls :
          saves[c].pc = "taskCrawl" /\ saves[d].pc = "taskCrawl" => c = d)
  /\ [][\A c \in Calls :
          saves[c].pc = "startProcessing" /\ saves'[c].pc \in {"taskCrawl", "taskFail"}
            => PassesStatusCheck(taskDoc)]_vars
  /\ [][\A c \in Calls : ~Refused(saves[c]) /\ Refused(saves'[c]) => taskDoc' = taskDoc]_vars
  /\ [](\A c \in Calls :
          Started(saves[c]) /\ Over(saves[c]) => taskDoc \in {"completed", "failed"})

\* the types that the save-article and batch-save-articles routes pass
ArticleRouteTypes == RouteTypes \ {"paste_save"}

\* C40: every job type that the save-article and batch-save routes pass to
\* addTask is accepted by the persisted task model and known to processJob's
\* dispatcher: the task.save() of such a job is accepted by the schema
\* whenever the store answers, and such a job, once started, has a handler
C40_RouteTypesAcceptedAndHandled ==
  \A j \in JobIds :
     jobs[j].type \in ArticleRouteTypes =>
        /\ pc[j] = "saving" => SaveAccepted(j, TRUE)
        /\ jobs[j].type \in HandledTypes

====
